---- MODULE Spec2Model ----
(***************************************************************************)
(* Model of the Slack incident bot: the rule-based detectors               *)
(* (src/utils, src/vocabulary), the in-memory incident store               *)
(* (src/incident_state.py), the action-item ledger                         *)
(* (src/utils/action_items.py) and the event handlers (src/app.py).        *)
(*                                                                         *)
(* Text.  A line of a message is a sequence of tokens, the words that a    *)
(* single space separates in the Python string; a message text is a        *)
(* sequence of lines (the pieces between "\n"), the empty sequence being   *)
(* an empty line.  A vocabulary phrase is the sequence of its words, and   *)
(* Python's `phrase in text` is the occurrence of the phrase as a          *)
(* contiguous run of tokens.  The sample lines use no token that holds a   *)
(* keyword as a proper part.  Regular expressions are given by their value *)
(* on each token of the alphabet.  A Python value that is None or a string *)
(* and is only ever tested for truth is "None" (token-valued) or << >>     *)
(* (text-valued).                                                          *)
(***************************************************************************)
EXTENDS Integers, Sequences, FiniteSets, TLC

VARIABLES
    _INCIDENTS,             \* incident_state._INCIDENTS: channel -> record
    PINNED_MESSAGES,        \* app.PINNED_MESSAGES: channel -> message ts
    pending_confirmations,  \* app.pending_confirmations: channel -> line
    slack,                  \* the platform, per channel: prompt (a
                            \* confirmation request with its two buttons was
                            \* posted), open (requests posted since the last
                            \* click on a button), pins (ts of the pinned
                            \* messages)
    assigned,               \* channel -> the ids add_action_item returned
                            \* for the channel's record, in call order
    out,                    \* what the last call returned / sent to the user
    threads                 \* the calls that worker threads are in the
                            \* middle of: thread -> function or handler, the
                            \* statement it is at, its local variables

vars == <<_INCIDENTS, PINNED_MESSAGES, pending_confirmations, slack,
          assigned, out, threads>>

(***************************************************************************)
(* Bounds                                                                  *)
(***************************************************************************)
MaxTimeline == 3    \* timeline entries kept in a record
MaxActions == 3     \* entries in a record's actions list
MaxPins == 2        \* messages pinned in one channel

NoneTok == "None"
NoneText == << >>
NowTs == "ts"       \* datetime.now().strftime(...): the clock is not modelled

\* the worker threads of the listener executor that the model runs, and a
\* thread that is in no call
Threads == {1, 2}
\* alias: the thread's local `state` is the record that the store holds
\* for the channel (not a record that was cleared or replaced since)
IdleThread ==
    [op |-> "idle", pc |-> "idle", ret |-> "none", alias |-> FALSE,
     text |-> << >>, next_id |-> 0, max_id |-> 0, list |-> << >>,
     item_id |-> 0]
NoThreads == [t \in Threads |-> IdleThread]

(***************************************************************************)
(* Vocabulary (src/vocabulary/incident_vocabulary.py)                      *)
(***************************************************************************)
INCIDENT_KEYWORDS ==
    {<<"bug">>, <<"issue">>, <<"defect">>, <<"regression">>,
     <<"escalation">>, <<"problem">>, <<"failure">>}

URGENCY_KEYWORDS ==
    {<<"p0">>, <<"p1">>, <<"sev0">>, <<"sev1">>, <<"critical">>,
     <<"urgent">>, <<"immediately">>, <<"asap">>, <<"high", "priority">>,
     <<"impacting", "customers">>, <<"prod", "down">>, <<"blocker">>}

STRONG_ACTION_PHRASES ==
    {<<"i", "will">>, <<"i'll">>, <<"i", "will", "take">>,
     <<"i'll", "take">>, <<"i", "can", "take">>, <<"i", "will", "handle">>,
     <<"i'll", "handle">>, <<"i", "can", "handle">>, <<"i", "will", "own">>,
     <<"i'll", "own">>, <<"i", "can", "own">>, <<"i", "am", "taking">>,
     <<"i'm", "taking">>, <<"taking", "this">>, <<"taking", "it">>,
     <<"taking", "ownership">>, <<"owning", "this">>, <<"on", "it">>,
     <<"i", "am", "on", "it">>, <<"i'm", "on", "it">>,
     <<"i", "am", "looking", "into">>, <<"i'm", "looking", "into">>,
     <<"looking", "into", "this">>, <<"looking", "into", "it">>,
     <<"i", "will", "look", "into">>, <<"i'll", "look", "into">>,
     <<"taking", "a", "look">>, <<"i", "will", "take", "a", "look">>,
     <<"i'll", "take", "a", "look">>, <<"i", "can", "take", "a", "look">>,
     <<"investigating">>, <<"triaging">>, <<"debugging">>,
     <<"root", "causing">>, <<"rca", "in", "progress">>,
     <<"working", "on">>, <<"working", "on", "it">>,
     <<"working", "on", "fix">>, <<"fix", "in", "progress">>,
     <<"fix", "underway">>, <<"building", "a", "fix">>,
     <<"coding", "a", "fix">>, <<"preparing", "a", "fix">>,
     <<"will", "fix">>, <<"i", "will", "fix">>, <<"i'll", "fix">>,
     <<"fixing">>, <<"pushing", "a", "fix">>, <<"deploying", "a", "fix">>,
     <<"hotfix">>, <<"patch">>, <<"deploying">>, <<"rolling", "out">>,
     <<"rollout">>, <<"rolling", "back">>, <<"rollback">>, <<"reverting">>,
     <<"revert">>, <<"mitigating">>, <<"mitigation">>,
     <<"applying", "workaround">>, <<"workaround", "in", "place">>,
     <<"restarting">>, <<"restart">>, <<"please", "check">>,
     <<"pls", "check">>, <<"please", "review">>, <<"pls", "review">>,
     <<"please", "investigate">>, <<"pls", "investigate">>,
     <<"please", "look", "into">>, <<"pls", "look", "into">>,
     <<"please", "verify">>, <<"pls", "verify">>, <<"please", "confirm">>,
     <<"pls", "confirm">>, <<"please", "share">>, <<"pls", "share">>,
     <<"please", "send">>, <<"pls", "send">>, <<"please", "update">>,
     <<"pls", "update">>, <<"please", "take", "a", "look">>,
     <<"pls", "take", "a", "look">>, <<"could", "you", "please">>,
     <<"can", "you", "please">>, <<"can", "you">>, <<"could", "you">>,
     <<"assigned", "to">>, <<"assigning", "to">>, <<"assign", "to">>,
     <<"owner:">>, <<"action:">>, <<"todo:">>, <<"next", "step:">>,
     <<"expedite">>}

SOFT_PHRASES ==
    {<<"maybe">>, <<"i", "think">>, <<"looks", "like">>, <<"we", "should">>,
     <<"let's", "see">>, <<"can", "we">>, <<"could", "we">>,
     <<"might", "be">>, <<"probably">>, <<"it", "seems">>}

OWNER_ASSIGNMENT_PHRASES ==
    {<<"will", "work", "on">>, <<"is", "taking">>, <<"assigned", "to">>,
     <<"will", "handle">>, <<"owns", "this">>,
     <<"looking", "into", "this">>, <<"have", "a", "look">>}

ETA_PHRASES ==
    {<<"by">>, <<"complete", "by">>, <<"will", "complete", "by">>,
     <<"target", "to", "complete", "by">>, <<"expected", "by">>,
     <<"Finish", "it", "by">>}

EOD_KEYWORDS ==
    {<<"eod">>, <<"end", "of", "day">>}

ASSIGNMENT_QUESTION_PHRASES ==
    {<<"can", "you", "take", "this">>, <<"can", "you", "handle", "this">>,
     <<"can", "you", "look", "into", "this">>,
     <<"can", "you", "take", "this", "up">>}

\* the dict keeps insertion order: the first group with a phrase wins
STATUS_PHRASES ==
    << <<"investigating",
         {<<"investigating">>, <<"looking", "into">>, <<"analyzing">>}>>,
       <<"rca done",
         {<<"rca", "done">>, <<"root", "cause", "identified">>,
          <<"root", "cause", "found">>}>>,
       <<"working on fix",
         {<<"working", "on", "fix">>, <<"fix", "in", "progress">>,
          <<"fix", "underway">>}>>,
       <<"pr raised",
         {<<"pr", "raised">>, <<"pull", "request", "raised">>,
          <<"pr", "created">>}>>,
       <<"monitoring", {<<"monitoring">>, <<"observing">>}>>,
       <<"resolved", {<<"resolved">>, <<"fixed">>, <<"issue", "closed">>}>> >>

(***************************************************************************)
(* Tokens                                                                  *)
(***************************************************************************)
Users == {"U1", "U2"}
Channels == {"C1"}

\* f"<@{user}>"
Mention(user) == IF user = "U1" THEN "<@U1>" ELSE "<@U2>"

\* group 1 of r"<@([A-Z0-9]+)>" in a token, "None" when the token has none
MentionId(tok) ==
    CASE tok = "<@U1>" -> "U1"
      [] tok = "<@U2>" -> "U2"
      [] OTHER -> NoneTok

\* str.lower() of one token
LowerTok(tok) ==
    CASE tok = "P1" -> "p1"
      [] tok = "I'll" -> "i'll"
      [] tok = "I" -> "i"
      [] tok = "May" -> "may"
      [] tok = "EOD" -> "eod"
      [] tok = "OPS-12" -> "ops-12"
      [] tok = "<@U1>" -> "<@u1>"
      [] tok = "<@U2>" -> "<@u2>"
      [] OTHER -> tok

Lower(line) == [i \in DOMAIN line |-> LowerTok(line[i])]

\* the one-word phrases of the vocabularies that a token of the model's
\* lines holds inside it, the token itself not counted
Inside(tok) ==
    CASE tok = "debugging" -> {"bug"}
      [] tok = "issues" -> {"issue"}
      [] OTHER -> {}

\* a search for whole words only
ContainsWords(text, phrase) ==
    \E i \in 1..Len(text) :
        /\ i + Len(phrase) - 1 <= Len(text)
        /\ SubSeq(text, i, i + Len(phrase) - 1) = phrase

\* Python `phrase in text`, a substring search: the words of the phrase are
\* consecutive words of the text, or the one word of the phrase is inside
\* a word of the text
Contains(text, phrase) ==
    \/ \E i \in 1..Len(text) :
          /\ i + Len(phrase) - 1 <= Len(text)
          /\ SubSeq(text, i, i + Len(phrase) - 1) = phrase
    \/ /\ Len(phrase) = 1
       /\ \E i \in 1..Len(text) : phrase[1] \in Inside(text[i])

ContainsAny(text, phrases) == \E p \in phrases : Contains(text, p)

\* the index of the first token of a line that satisfies Hit, 0 for none
RECURSIVE FirstIndex(_, _, _)
FirstIndex(line, Hit(_), i) ==
    IF i > Len(line) THEN 0
    ELSE IF Hit(line[i]) THEN i
    ELSE FirstIndex(line, Hit, i + 1)

(***************************************************************************)
(* Intent classifier (src/utils/incident_classifier.py)                    *)
(***************************************************************************)
classify_incident_intent(line) ==
    LET text == Lower(line)
        intent_score ==
            Cardinality({k \in INCIDENT_KEYWORDS : Contains(text, k)})
        urgency_score ==
            Cardinality({u \in URGENCY_KEYWORDS : Contains(text, u)})
    IN  IF intent_score >= 1 /\ urgency_score >= 1 THEN "HIGH"
        ELSE IF intent_score >= 1 /\ urgency_score = 0 THEN "MEDIUM"
        ELSE "LOW"

(***************************************************************************)
(* Field extractors (src/utils/*_detection.py)                             *)
(***************************************************************************)
extract_abstract(text) ==
    LET lower == Lower(text)
    IN  IF text = << >> THEN NoneTok
        ELSE IF \/ ContainsAny(lower, {<<"webui">>, <<"web", "ui">>,
                       <<"frontend">>, <<"front-end">>, <<"dashboard">>,
                       <<"console">>})
                \/ Contains(lower, <<"ui">>)
        THEN "WebUI Bug"
        ELSE IF ContainsAny(lower, {<<"outage">>, <<"downtime">>,
                       <<"prod", "down">>, <<"service", "down">>})
        THEN "Service Outage"
        ELSE IF ContainsAny(lower, {<<"login">>, <<"sso">>, <<"auth">>,
                       <<"authentication">>, <<"authorization">>,
                       <<"token", "expired">>})
        THEN "Auth/Login Issue"
        ELSE IF ContainsAny(lower, {<<"bug">>, <<"issue">>, <<"defect">>,
                       <<"regression">>, <<"failure">>, <<"error">>})
        THEN "Software Bug"
        ELSE NoneTok

\* str.title() of the status keys
Title(status) ==
    CASE status = "investigating" -> "Investigating"
      [] status = "rca done" -> "Rca Done"
      [] status = "working on fix" -> "Working On Fix"
      [] status = "pr raised" -> "Pr Raised"
      [] status = "monitoring" -> "Monitoring"
      [] status = "resolved" -> "Resolved"

RECURSIVE StatusFrom(_, _)
StatusFrom(lower, i) ==
    IF i > Len(STATUS_PHRASES) THEN NoneTok
    ELSE IF ContainsAny(lower, STATUS_PHRASES[i][2])
    THEN Title(STATUS_PHRASES[i][1])
    ELSE StatusFrom(lower, i + 1)

extract_status(text) == StatusFrom(Lower(text), 1)

\* group 1 of JIRA_URL_REGEX in a token
JiraUrlKey(tok) ==
    IF tok = "https://jira/browse/OPS-12" THEN "OPS-12" ELSE NoneTok

\* the match of JIRA_KEY_REGEX in a token
JiraKey(tok) ==
    IF tok \in {"OPS-12", "https://jira/browse/OPS-12"} THEN "OPS-12"
    ELSE NoneTok

HasJiraUrl(tok) == JiraUrlKey(tok) # NoneTok
HasJiraKey(tok) == JiraKey(tok) # NoneTok

extract_jira_id(text) ==
    LET u == FirstIndex(text, HasJiraUrl, 1)
        k == FirstIndex(text, HasJiraKey, 1)
    IN  IF u # 0 THEN JiraUrlKey(text[u])
        ELSE IF k # 0 THEN JiraKey(text[k])
        ELSE NoneTok

\* a token that URL_REGEX matches (it then matches the whole token)
IsUrl(tok) ==
    tok \in {"https://wiki/runbook", "https://wiki/faq",
             "https://jira/browse/OPS-12"}

extract_links(text) == SelectSeq(text, IsUrl)

HasMention(tok) == MentionId(tok) # NoneTok

\* re.findall(MENTION_REGEX, text)
Mentions(text) ==
    LET ms == SelectSeq(text, HasMention)
    IN  [i \in DOMAIN ms |-> MentionId(ms[i])]

detect_owner_question(text) ==
    ContainsAny(Lower(text), ASSIGNMENT_QUESTION_PHRASES)

\* a token of which "owner" is a part
HasOwnerWord(tok) == tok \in {"owner", "owner:", "ownership"}

extract_owner(text, sender_name) ==
    LET lowered == Lower(text)
        mentions == Mentions(text)
    IN  IF ContainsAny(lowered, OWNER_ASSIGNMENT_PHRASES)
        THEN IF mentions # << >> THEN Mention(mentions[1]) ELSE sender_name
        ELSE IF FirstIndex(lowered, HasOwnerWord, 1) # 0 /\ mentions # << >>
        THEN Mention(mentions[1])
        ELSE NoneTok

\* the end of a token that matches \d{1,2}(st|nd|rd|th)?
DateTail(tok) ==
    CASE tok = "21st" -> "21st"
      [] tok \in {"OPS-12", "https://jira/browse/OPS-12"} -> "12"
      [] OTHER -> NoneTok

\* the start of a token that matches [A-Za-z]+
AlphaHead(tok) ==
    CASE tok \in {"<@U1>", "<@U2>", "21st", "(today)"} -> NoneTok
      [] tok \in {"https://wiki/runbook", "https://wiki/faq",
                  "https://jira/browse/OPS-12"}
            -> "https"
      [] tok = "OPS-12" -> "OPS"
      [] tok = "I'll" -> "I"
      [] tok \in {"owner:"} -> "owner"
      [] OTHER -> tok

RECURSIVE DateFrom(_, _)
DateFrom(text, i) ==
    IF i >= Len(text) THEN NoneText
    ELSE IF DateTail(text[i]) # NoneTok /\ AlphaHead(text[i + 1]) # NoneTok
    THEN <<DateTail(text[i]), AlphaHead(text[i + 1])>>
    ELSE DateFrom(text, i + 1)

extract_eta(text) ==
    LET lower == Lower(text)
    IN  IF ContainsAny(lower, EOD_KEYWORDS) THEN <<"EOD", "(today)">>
        ELSE IF ContainsAny(lower, ETA_PHRASES) THEN DateFrom(text, 1)
        ELSE NoneText

extract_action(text, sender_name) ==
    LET normalized == text
        lowered == Lower(normalized)
    IN  IF ContainsAny(lowered, SOFT_PHRASES) THEN NoneText
        ELSE IF ContainsAny(lowered, STRONG_ACTION_PHRASES)
        THEN IF lowered[1] = "i'll"
             THEN <<sender_name, "will">> \o Tail(normalized)
             ELSE IF lowered[1] = "i"
             THEN <<sender_name>> \o Tail(normalized)
             ELSE normalized
        ELSE NoneText

infer_owner_from_text(text) ==
    LET mentions == Mentions(text)
    IN  IF text = << >> \/ mentions = << >> THEN NoneTok
        ELSE Mention(mentions[1])

(***************************************************************************)
(* Incident store (src/incident_state.py)                                  *)
(***************************************************************************)
\* f"{timestamp} - {message}": the message is a fixed part, a text argument
\* and (for the action events) the number after "#"
Event(msg, arg, num) == [ts |-> NowTs, msg |-> msg, arg |-> arg, num |-> num]

NewRecord ==
    [severity |-> "P1",
     status |-> "Investigating",
     abstract |-> "TBD",
     owner |-> "TBD",
     eta |-> <<"TBD">>,
     jira_id |-> NoneTok,
     actions |-> << >>,
     next_action_id |-> 1,
     links |-> << >>,
     timeline |-> << >>,
     pending_owner_request |-> NoneTok,
     just_started |-> TRUE]

is_active(inc, channel) == channel \in DOMAIN inc

add_timeline_event(inc, channel, msg, arg, num) ==
    IF channel \in DOMAIN inc
    THEN [inc EXCEPT ![channel].timeline = Append(@, Event(msg, arg, num))]
    ELSE inc

\* a start_incident that forgets the existence check
start_incident_overwrite(inc, channel) ==
    [store |-> add_timeline_event(
                   [d \in DOMAIN inc \cup {channel} |->
                       IF d = channel THEN NewRecord ELSE inc[d]],
                   channel, "Incident detected", << >>, 0),
     ret |-> TRUE]

\* the store after the call, and the value returned
start_incident(inc, channel) ==
    IF channel \in DOMAIN inc
    THEN [store |-> inc, ret |-> FALSE]
    ELSE [store |-> add_timeline_event(inc @@ (channel :> NewRecord),
                        channel, "Incident detected", << >>, 0),
          ret |-> TRUE]

\* a clear that empties the store
clear_every(inc, channel) == [d \in {} |-> inc[d]]

\* _INCIDENTS.pop(channel, None)
clear(inc, channel) == [d \in DOMAIN inc \ {channel} |-> inc[d]]

add_action(inc, channel, action) ==
    IF channel \in DOMAIN inc
    THEN [inc EXCEPT ![channel].actions = Append(@, action)]
    ELSE inc

(***************************************************************************)
(* Action-item ledger (src/utils/action_items.py)                          *)
(***************************************************************************)
\* d[k] = v and del d[k] (d.pop(k, None)) on a Python dict
Put(f, k, v) == [d \in DOMAIN f \cup {k} |-> IF d = k THEN v ELSE f[d]]
Drop(f, k) == [d \in DOMAIN f \ {k} |-> f[d]]

Pad == " "      \* white space at an end of a text

\* str.strip()
RECURSIVE Strip(_)
Strip(text) ==
    IF text = << >> THEN text
    ELSE IF Head(text) = Pad THEN Strip(Tail(text))
    ELSE IF text[Len(text)] = Pad THEN Strip(SubSeq(text, 1, Len(text) - 1))
    ELSE text

\* an entry of state["actions"]: a dict (kind "dict"; int_id tells whether
\* its "id" is an int) or a legacy string (kind "str", the string in text)
Item(id, text, owner, due, status, created_at, created_by, done_at, done_by) ==
    [kind |-> "dict", int_id |-> TRUE, id |-> id, text |-> text,
     owner |-> owner, due |-> due, status |-> status,
     created_at |-> created_at, created_by |-> created_by,
     done_at |-> done_at, done_by |-> done_by]

LegacyString(text) ==
    [kind |-> "str", int_id |-> FALSE, id |-> 0, text |-> text,
     owner |-> NoneTok, due |-> NoneText, status |-> "open",
     created_at |-> NoneTok, created_by |-> NoneTok,
     done_at |-> NoneTok, done_by |-> NoneTok]

Migrated(a, next_id) ==
    Item(next_id, Strip(a.text), NoneTok, NoneText, "open", NowTs, NoneTok,
         NoneTok, NoneTok)

Max(a, b) == IF a >= b THEN a ELSE b

\* lines 43-61: the list starts with a string; entries that are no strings
\* are skipped
RECURSIVE MigrateAll(_, _, _, _)
MigrateAll(actions, i, next_id, migrated) ==
    IF i > Len(actions) THEN [actions |-> migrated, next_id |-> next_id]
    ELSE IF actions[i].kind # "str"
    THEN MigrateAll(actions, i + 1, next_id, migrated)
    ELSE MigrateAll(actions, i + 1, next_id + 1,
                    Append(migrated, Migrated(actions[i], next_id)))

\* lines 64-105
RECURSIVE NormalizeLoop(_, _, _, _, _)
NormalizeLoop(actions, i, next_id, max_id, normalized) ==
    IF i > Len(actions)
    THEN [actions |-> normalized, next_id |-> next_id, max_id |-> max_id]
    ELSE LET raw == actions[i]
             item == IF raw.kind = "str" THEN Migrated(raw, next_id) ELSE raw
             n1 == IF raw.kind = "str" THEN next_id + 1 ELSE next_id
             item_id == IF item.int_id THEN item.id ELSE n1
             n2 == IF item.int_id THEN n1 ELSE n1 + 1
             status == IF item.status \in {"open", "done"}
                       THEN item.status ELSE "open"
         IN  NormalizeLoop(actions, i + 1, n2, Max(max_id, item_id),
                 Append(normalized,
                     Item(item_id, Strip(item.text), item.owner, item.due,
                          status,
                          IF item.created_at = NoneTok THEN NowTs
                          ELSE item.created_at,
                          item.created_by, item.done_at, item.done_by)))

\* lines 107-108: the two stores that end normalize_actions; r is what the
\* loop of lines 64-105 left
Normalized(state, r) ==
    Put([state EXCEPT !.actions = r.actions], "next_action_id",
        Max(Max(r.max_id + 1, r.next_id), 1))

\* lines 42-61: m.actions is state["actions"] after them, m.next_id is next_id
Migration(actions, next_id) ==
    IF actions # << >> /\ actions[1].kind = "str"
    THEN MigrateAll(actions, 1, next_id, << >>)
    ELSE [actions |-> actions, next_id |-> next_id]

\* lines 63-108
NormalizeFrom(state, m) ==
    Normalized(state, NormalizeLoop(m.actions, 1, m.next_id, 0, << >>))

\* lines 28-29 and 33-34: state.get("next_action_id", 1) or 1
NextIdOr1(state) ==
    IF "next_action_id" \in DOMAIN state /\ state.next_action_id # 0
    THEN state.next_action_id
    ELSE 1

\* lines 37-39: the next id a list of actions is normalized with
ValidNextId(state) ==
    IF "next_action_id" \in DOMAIN state /\ state.next_action_id >= 1
    THEN state.next_action_id
    ELSE 1

\* a normalize_actions that gives every entry a new id
normalize_actions_renumber(state) ==
    Normalized(state,
        NormalizeLoop([i \in DOMAIN state.actions |->
                          [state.actions[i] EXCEPT !.int_id = FALSE]],
                      1, ValidNextId(state), 0, << >>))

\* a state whose "actions" is None, missing or no list is a record without
\* the key (lines 26-35); a state without "next_action_id" likewise
normalize_actions(state) ==
    IF "actions" \notin DOMAIN state
    THEN Put(Put(state, "actions", << >>), "next_action_id", NextIdOr1(state))
    ELSE NormalizeFrom(state, Migration(state.actions, ValidNextId(state)))

\* lines 113-120, on the normalized state s
Split(s) ==
    LET IsDone(a) == a.status = "done"
        IsOpen(a) == a.status # "done"
    IN  [state |-> s,
         open_items |-> SelectSeq(s.actions, IsOpen),
         done_items |-> SelectSeq(s.actions, IsDone)]

\* the state after the call and the two lists returned
split_actions(state) == Split(normalize_actions(state))

\* the item of lines 154-164
NewItem(item_id, cleaned, created_by, owner, due) ==
    Item(item_id, cleaned, owner, due, "open", NowTs, created_by, NoneTok,
         NoneTok)

\* a next id that is the id just given
NextSame(s) == s.next_action_id

\* lines 151-152: item_id + 1, on the normalized state s
NextAfter(s) == s.next_action_id + 1

\* an add that takes the next id before it looks at the text
AddToConsuming(s, cleaned, created_by, owner, due) ==
    IF cleaned = << >>
    THEN [state |-> [s EXCEPT !.next_action_id = NextAfter(s)],
          raised |-> TRUE,
          item |-> NewItem(s.next_action_id, cleaned, created_by, owner, due)]
    ELSE [state |-> [s EXCEPT !.next_action_id = NextAfter(s),
                              !.actions = Append(@,
                                  NewItem(s.next_action_id, cleaned,
                                          created_by, owner, due))],
          raised |-> FALSE,
          item |-> NewItem(s.next_action_id, cleaned, created_by, owner, due)]

\* lines 147-166, on the normalized state s
AddTo(s, cleaned, created_by, owner, due) ==
    IF cleaned = << >>
    THEN [state |-> s, raised |-> TRUE,
          item |-> NewItem(s.next_action_id, cleaned, created_by, owner, due)]
    ELSE [state |-> [s EXCEPT !.next_action_id = NextAfter(s),
                              !.actions = Append(@,
                                  NewItem(s.next_action_id, cleaned,
                                          created_by, owner, due))],
          raised |-> FALSE,
          item |-> NewItem(s.next_action_id, cleaned, created_by, owner, due)]

\* the state after the call, whether it raised ValueError, the item returned
add_action_item(state, text, created_by, owner, due) ==
    AddTo(normalize_actions(state), Strip(text), created_by, owner, due)

\* the index of the first entry whose id is action_id, 0 when there is none
RECURSIVE FindItem(_, _, _)
FindItem(actions, action_id, i) ==
    IF i > Len(actions) THEN 0
    ELSE IF actions[i].id = action_id THEN i
    ELSE FindItem(actions, action_id, i + 1)

\* lines 181-197: the item at index i with the arguments applied
Updated(a0, text, owner, due, status, done_by) ==
    [a0 EXCEPT
        !.text = IF Strip(text) # << >> THEN Strip(text) ELSE @,
        !.owner = IF owner # NoneTok THEN owner ELSE @,
        !.due = IF due # NoneText THEN due ELSE @,
        !.status = IF status \in {"open", "done"} THEN status ELSE @,
        !.done_at = IF status = "done" THEN NowTs
                    ELSE IF status = "open" THEN NoneTok ELSE @,
        !.done_by = IF status = "done" THEN done_by
                    ELSE IF status = "open" THEN NoneTok ELSE @]

\* lines 180-198, on the normalized state s; i is the index of the item
UpdateAt(s, i, text, owner, due, status, done_by) ==
    IF i = 0 THEN [state |-> s, found |-> 0]
    ELSE [state |-> [s EXCEPT !.actions[i] =
                         Updated(@, text, owner, due, status, done_by)],
          found |-> i]

\* lines 179-198, on the normalized state s
UpdateIn(s, action_id, text, owner, due, status, done_by) ==
    UpdateAt(s, FindItem(s.actions, action_id, 1), text, owner, due, status,
             done_by)

\* text, owner, due, status: the keyword arguments, None when not given.
\* The state after the call, and the index of the item returned (0: None)
update_action_item(state, action_id, text, owner, due, status, done_by) ==
    UpdateIn(normalize_actions(state), action_id, text, owner, due, status,
             done_by)

(***************************************************************************)
(* Platform (the Slack client the handlers are given)                      *)
(***************************************************************************)
\* the outcome of the calls of one handler run on the channel's messages
\* (chat_postMessage, chat_update, pins_add, pins_remove): "ok", or "error"
\* when the first of them raises
IoOutcomes == {"ok", "error"}

\* msg["ts"] of a message posted to the channel: a ts that no pinned
\* message of the channel has
NewTs(channel) ==
    CHOOSE n \in 1..(MaxPins + 1) : n \notin slack[channel].pins

\* the last call: the handler or function, its channel, the lines a message
\* handler went through, what start_incident returned to it ("none": not
\* called), what it sent to the user, whether it raised, the id of the
\* action item it returned (0: none)
Out(op, channel, lines, started, reply, raised, item) ==
    [op |-> op, channel |-> channel, lines |-> lines, started |-> started,
     reply |-> reply, raised |-> raised, item |-> item]

(***************************************************************************)
(* Sample lines                                                            *)
(***************************************************************************)
LineHigh == <<"P1", "bug", "urgent">>
LineFixed == <<"issue", "fixed">>
LineEscalation == <<"escalation", "raised">>
LineMonitoring == <<"monitoring", "now">>
LineHello == <<"hello">>

LifecycleLines ==
    {LineHigh, LineFixed, LineEscalation, LineMonitoring, LineHello}

(***************************************************************************)
(* handle_message (src/app.py)                                             *)
(***************************************************************************)
EmptyText == << << >> >>

\* [line.strip() for line in text.split("\n") if line.strip()]
TextLines(text) ==
    LET NonEmpty(line) == line # << >>
    IN  SelectSeq([i \in DOMAIN text |-> Strip(text[i])], NonEmpty)

\* a detection loop in which the last line that is not LOW decides
RECURSIVE DetectLast(_, _)
DetectLast(lines, i) ==
    IF i > Len(lines) THEN [intent |-> "LOW", line |-> << >>]
    ELSE LET intent == classify_incident_intent(lines[i])
             rest == DetectLast(lines, i + 1)
         IN  IF rest.intent # "LOW" THEN rest
             ELSE IF intent \in {"HIGH", "MEDIUM"}
             THEN [intent |-> intent, line |-> lines[i]]
             ELSE rest

\* lines 63-80: the first line that is not LOW ends the loop
RECURSIVE Detect(_, _)
Detect(lines, i) ==
    IF i > Len(lines) THEN [intent |-> "LOW", line |-> << >>]
    ELSE LET intent == classify_incident_intent(lines[i])
         IN  IF intent \in {"HIGH", "MEDIUM"}
             THEN [intent |-> intent, line |-> lines[i]]
             ELSE Detect(lines, i + 1)

ConfirmWords == {<<"yes">>, <<"ok">>, <<"okay">>, <<"sure">>, <<"i", "will">>}

\* a loop that appends every link it is given
RECURSIVE AddLinksAll(_, _, _, _, _)
AddLinksAll(inc, channel, links, i, updated) ==
    IF i > Len(links) THEN [store |-> inc, updated |-> updated]
    ELSE AddLinksAll(
             add_timeline_event(
                 [inc EXCEPT ![channel].links = Append(@, links[i])],
                 channel, "Reference added:", <<links[i]>>, 0),
             channel, links, i + 1, TRUE)

\* lines 161-170
RECURSIVE AddLinks(_, _, _, _, _)
AddLinks(inc, channel, links, i, updated) ==
    IF i > Len(links) THEN [store |-> inc, updated |-> updated]
    ELSE IF \E k \in DOMAIN inc[channel].links :
                inc[channel].links[k] = links[i]
    THEN AddLinks(inc, channel, links, i + 1, updated)
    ELSE AddLinks(
             add_timeline_event(
                 [inc EXCEPT ![channel].links = Append(@, links[i])],
                 channel, "Reference added:", <<links[i]>>, 0),
             channel, links, i + 1, TRUE)

\* lines 214-219: the item was added
ActionAdded(inc, channel, add, updated) ==
    [store |-> add_timeline_event([inc EXCEPT ![channel] = add.state],
                                  channel, "Action added: #", << >>,
                                  add.item.id),
     updated |-> TRUE, added |-> <<add.item.id>>]

\* a de-dup that also looks at the items that are done
ActionSplitAnyStatus(inc, channel, sender, line, action, updated, sp) ==
    IF \E k \in DOMAIN sp.state.actions : sp.state.actions[k].text = action
    THEN [store |-> [inc EXCEPT ![channel] = sp.state],
          updated |-> updated, added |-> << >>]
    ELSE ActionAdded(inc, channel,
                     add_action_item(sp.state, action, sender,
                                     infer_owner_from_text(action),
                                     extract_eta(line)),
                     updated)

\* lines 207-219; sp is what split_actions gave
ActionSplit(inc, channel, sender, line, action, updated, sp) ==
    IF \E k \in DOMAIN sp.open_items : sp.open_items[k].text = action
    THEN [store |-> [inc EXCEPT ![channel] = sp.state],
          updated |-> updated, added |-> << >>]
    ELSE ActionAdded(inc, channel,
                     add_action_item(sp.state, action, sender,
                                     infer_owner_from_text(action),
                                     extract_eta(line)),
                     updated)

\* lines 203-219, reached with an action text
LineAction(inc, channel, sender, line, action, updated) ==
    ActionSplit(inc, channel, sender, line, action, updated,
                split_actions(inc[channel]))

\* lines 172-219: owner, eta and action are what the three detectors gave
LineFields(inc, channel, sender, line, updated, owner, eta, action) ==
    IF owner # NoneTok /\ owner # inc[channel].owner
    THEN [store |-> add_timeline_event(
                        [inc EXCEPT ![channel].owner = owner],
                        channel, "Owner assigned to", <<owner>>, 0),
          updated |-> TRUE, added |-> << >>]
    ELSE IF eta # NoneText /\ eta # inc[channel].eta
    THEN [store |-> add_timeline_event(
                        [inc EXCEPT ![channel].eta = eta],
                        channel, "ETA set to", eta, 0),
          updated |-> TRUE, added |-> << >>]
    ELSE IF action # NoneText
    THEN LineAction(inc, channel, sender, line, action, updated)
    ELSE [store |-> inc, updated |-> updated, added |-> << >>]

\* lines 172-219; l is what the loop of lines 161-170 left
AfterLinks(l, channel, sender, line) ==
    LineFields(l.store, channel, sender, line, l.updated,
               extract_owner(line, sender), extract_eta(line),
               extract_action(line, sender))

\* lines 161-219: from the links on
LineTail(inc, channel, sender, line, updated) ==
    AfterLinks(AddLinks(inc, channel, extract_links(line), 1, updated),
               channel, sender, line)

\* a status and ticket step that goes on to the other detectors after it
\* changed the record
LineStatusThrough(inc, channel, sender, line, updated, status, jira_id) ==
    IF status # NoneTok /\ status # inc[channel].status
    THEN LineTail(add_timeline_event(
                      [inc EXCEPT ![channel].status = status],
                      channel, "Status updated to", <<status>>, 0),
                  channel, sender, line, TRUE)
    ELSE IF jira_id # NoneTok /\ jira_id # inc[channel].jira_id
    THEN LineTail(add_timeline_event(
                      [inc EXCEPT ![channel].jira_id = jira_id],
                      channel, "Jira linked:", <<jira_id>>, 0),
                  channel, sender, line, TRUE)
    ELSE LineTail(inc, channel, sender, line, updated)

\* lines 130-219: status and jira_id are what the two detectors gave
LineStatus(inc, channel, sender, line, updated, status, jira_id) ==
    IF status # NoneTok /\ status # inc[channel].status
    THEN [store |-> add_timeline_event(
                        [inc EXCEPT ![channel].status = status],
                        channel, "Status updated to", <<status>>, 0),
          updated |-> TRUE, added |-> << >>]
    ELSE IF jira_id # NoneTok /\ jira_id # inc[channel].jira_id
    THEN [store |-> add_timeline_event(
                        [inc EXCEPT ![channel].jira_id = jira_id],
                        channel, "Jira linked:", <<jira_id>>, 0),
          updated |-> TRUE, added |-> << >>]
    ELSE LineTail(inc, channel, sender, line, updated)

\* an owner step that takes a confirming word from any sender
LineOwnerAnySender(inc, channel, user, sender, line, updated, mentions) ==
    IF detect_owner_question(line)
    THEN [store |-> IF mentions # << >>
                    THEN [inc EXCEPT
                             ![channel].pending_owner_request = mentions[1]]
                    ELSE inc,
          updated |-> updated, added |-> << >>]
    ELSE IF /\ inc[channel].pending_owner_request # NoneTok
            /\ Lower(line) \in ConfirmWords
    THEN [store |-> add_timeline_event(
                        [inc EXCEPT ![channel].owner = sender,
                             ![channel].pending_owner_request = NoneTok],
                        channel, "Owner assigned to", <<sender>>, 0),
          updated |-> TRUE, added |-> << >>]
    ELSE LineStatus(inc, channel, sender, line, updated,
                    extract_status(line), extract_jira_id(line))

\* lines 106-128; mentions is re.findall(r"<@([A-Z0-9]+)>", line)
LineOwner(inc, channel, user, sender, line, updated, mentions) ==
    IF detect_owner_question(line)
    THEN [store |-> IF mentions # << >>
                    THEN [inc EXCEPT
                             ![channel].pending_owner_request = mentions[1]]
                    ELSE inc,
          updated |-> updated, added |-> << >>]
    ELSE IF /\ inc[channel].pending_owner_request # NoneTok
            /\ Lower(line) \in ConfirmWords
            /\ user = inc[channel].pending_owner_request
    THEN [store |-> add_timeline_event(
                        [inc EXCEPT ![channel].owner = sender,
                             ![channel].pending_owner_request = NoneTok],
                        channel, "Owner assigned to", <<sender>>, 0),
          updated |-> TRUE, added |-> << >>]
    ELSE LineStatus(inc, channel, sender, line, updated,
                    extract_status(line), extract_jira_id(line))

\* lines 106-219: owner question and confirmation, then the other fields
LineHead(inc, channel, user, sender, line, updated) ==
    LineOwner(inc, channel, user, sender, line, updated, Mentions(line))

\* a pass that stores every abstract it finds
LineAbstractAlways(inc, channel, user, sender, line, updated, abstract) ==
    IF abstract # NoneTok
    THEN LineHead(add_timeline_event(
                      [inc EXCEPT ![channel].abstract = abstract],
                      channel, "Abstract set to", <<abstract>>, 0),
                  channel, user, sender, line, TRUE)
    ELSE LineHead(inc, channel, user, sender, line, updated)

\* lines 96-219; abstract is what extract_abstract gave
LineAbstract(inc, channel, user, sender, line, updated, abstract) ==
    IF inc[channel].abstract \in {"", "TBD"} /\ abstract # NoneTok
    THEN LineHead(add_timeline_event(
                      [inc EXCEPT ![channel].abstract = abstract],
                      channel, "Abstract set to", <<abstract>>, 0),
                  channel, user, sender, line, TRUE)
    ELSE LineHead(inc, channel, user, sender, line, updated)

\* lines 93-219: one pass of the loop body
ProcessLine(inc, channel, user, sender, line, updated) ==
    LineAbstract(inc, channel, user, sender, line, updated,
                 extract_abstract(line))

\* the loop of lines 93-219; added: the ids of the action items created,
\* r: what the pass for line i gave
RECURSIVE ProcessLines(_, _, _, _, _, _, _, _)
RECURSIVE ProcessRest(_, _, _, _, _, _, _)
ProcessRest(r, channel, user, sender, lines, i, added) ==
    ProcessLines(r.store, channel, user, sender, lines, i + 1, r.updated,
                 added \o r.added)

ProcessLines(inc, channel, user, sender, lines, i, updated, added) ==
    IF i > Len(lines)
    THEN [store |-> inc, updated |-> updated, added |-> added]
    ELSE ProcessRest(ProcessLine(inc, channel, user, sender, lines[i],
                                 updated),
                     channel, user, sender, lines, i, added)

\* the bounds of the model
Bounded(inc, sl) ==
    /\ \A c \in DOMAIN inc :
          /\ Len(inc[c].timeline) <= MaxTimeline
          /\ Len(inc[c].actions) <= MaxActions
    /\ \A c \in DOMAIN sl : Cardinality(sl[c].pins) <= MaxPins

\* a guard that forgets the pending marker
ShouldAskWhenInactive(inc, pending, channel) == ~is_active(inc, channel)

\* lines 73-76
ShouldAsk(inc, pending, channel) ==
    ~is_active(inc, channel) /\ channel \notin DOMAIN pending

PyBool(b) == IF b THEN "True" ELSE "False"

\* lines 224-244 after the loop left p: the summary is updated, or posted and
\* pinned; render is `updated or incident_started`
Render(channel, lines, started, render, io, p) ==
    /\ _INCIDENTS' =
           IF render /\ io = "ok"
           THEN [p.store EXCEPT ![channel].just_started = FALSE]
           ELSE p.store
    /\ PINNED_MESSAGES' =
           IF render /\ io = "ok" /\ channel \notin DOMAIN PINNED_MESSAGES
           THEN Put(PINNED_MESSAGES, channel, NewTs(channel))
           ELSE PINNED_MESSAGES
    /\ slack' =
           IF render /\ io = "ok" /\ channel \notin DOMAIN PINNED_MESSAGES
           THEN [slack EXCEPT ![channel].pins = @ \cup {NewTs(channel)}]
           ELSE slack
    /\ assigned' = [assigned EXCEPT ![channel] = @ \o p.added]
    /\ UNCHANGED threads
    /\ out' = Out("message", channel, lines, started,
                  IF render /\ io = "ok" THEN "summary" ELSE "none",
                  render /\ io = "error", 0)
    /\ UNCHANGED pending_confirmations
    /\ Bounded(_INCIDENTS', slack')

\* lines 88-244, with an active incident in the store st.store
Process(channel, user, lines, started, io, st, p) ==
    Render(channel, lines, started, p.updated \/ st.ret, io, p)

\* lines 71-80: a MEDIUM line ends the handler
Medium(channel, lines, line, io, ask) ==
    /\ pending_confirmations' =
           IF ask /\ io = "ok" THEN Put(pending_confirmations, channel, line)
           ELSE pending_confirmations
    /\ slack' =
           IF ask /\ io = "ok"
           THEN [slack EXCEPT ![channel].prompt = TRUE, ![channel].open = @ + 1]
           ELSE slack
    /\ UNCHANGED threads
    /\ out' = Out("message", channel, lines, "none",
                  IF ask /\ io = "ok" THEN "Possible incident detected"
                  ELSE "none",
                  ask /\ io = "error", 0)
    /\ UNCHANGED <<_INCIDENTS, PINNED_MESSAGES, assigned>>

\* lines 61-244; d is what the detection loop gave, st the store after it
\* and what start_incident returned
Detected(channel, user, lines, io, d, st) ==
    IF d.intent = "MEDIUM"
    THEN Medium(channel, lines, d.line, io,
                ShouldAsk(_INCIDENTS, pending_confirmations, channel))
    ELSE IF ~is_active(st.store, channel)
    THEN /\ UNCHANGED threads
         /\ out' = Out("message", channel, lines, "none", "none", FALSE, 0)
         /\ UNCHANGED <<_INCIDENTS, PINNED_MESSAGES, pending_confirmations,
                        slack, assigned>>
    ELSE Process(channel, user, lines,
                 IF d.intent = "HIGH" THEN PyBool(st.ret) ELSE "none", io, st,
                 ProcessLines(
                     [st.store EXCEPT ![channel] = normalize_actions(@)],
                     channel, user, Mention(user), lines, 1, FALSE, << >>))

\* lines 61-69: the store after the detection loop
Started(channel, d) ==
    IF d.intent = "HIGH" THEN start_incident(_INCIDENTS, channel)
    ELSE [store |-> _INCIDENTS, ret |-> FALSE]

\* lines 56-244
HandleLines(channel, user, lines, io, d) ==
    Detected(channel, user, lines, io, d, Started(channel, d))

\* handle_message(event, client): lines 46-244
HandleMessage(channel, user, text, io) ==
    IF text = EmptyText \/ user = NoneTok
    THEN /\ UNCHANGED threads
         /\ out' = Out("message", channel, << >>, "none", "none", FALSE, 0)
         /\ UNCHANGED <<_INCIDENTS, PINNED_MESSAGES, pending_confirmations,
                        slack, assigned>>
    ELSE HandleLines(channel, user, TextLines(text), io,
                     Detect(TextLines(text), 1))

\* a report that also forgets the channel's pending marker
ResolveInactiveDropMarker(channel) ==
    /\ UNCHANGED threads
    /\ out' = Out("resolve", channel, << >>, "none",
                  "No active incident found in this channel.", FALSE, 0)
    /\ pending_confirmations' = Drop(pending_confirmations, channel)
    /\ UNCHANGED <<_INCIDENTS, PINNED_MESSAGES, slack, assigned>>

\* lines 257-263: the report sent to the user of the command
ResolveInactive(channel) ==
    /\ UNCHANGED threads
    /\ out' = Out("resolve", channel, << >>, "none",
                  "No active incident found in this channel.", FALSE, 0)
    /\ UNCHANGED <<_INCIDENTS, PINNED_MESSAGES, pending_confirmations, slack,
                   assigned>>

\* resolve_incident(ack, body, client, logger): lines 251-304
ResolveIncident(channel, io) ==
    LET state1 == [_INCIDENTS EXCEPT ![channel].status = "Resolved"]
        inc1 == add_timeline_event(state1, channel, "Incident resolved",
                                   << >>, 0)
        pinned == channel \in DOMAIN PINNED_MESSAGES
    IN  IF ~is_active(_INCIDENTS, channel)
        THEN ResolveInactive(channel)
        ELSE IF pinned /\ io = "error"
        THEN /\ _INCIDENTS' = inc1
             /\ UNCHANGED threads
             /\ out' = Out("resolve", channel, << >>, "none",
                           "Failed to resolve incident", TRUE, 0)
             /\ UNCHANGED <<PINNED_MESSAGES, pending_confirmations, slack,
                            assigned>>
             /\ Bounded(_INCIDENTS', slack')
        ELSE /\ PINNED_MESSAGES' = Drop(PINNED_MESSAGES, channel)
             /\ slack' = IF pinned
                         THEN [slack EXCEPT ![channel].pins =
                                               @ \ {PINNED_MESSAGES[channel]}]
                         ELSE slack
             /\ _INCIDENTS' = clear(inc1, channel)
             /\ assigned' = [assigned EXCEPT ![channel] = << >>]
             /\ UNCHANGED threads
             /\ out' = Out("resolve", channel, << >>, "none",
                           IF io = "ok"
                           THEN "Incident has been marked as Resolved"
                           ELSE "Failed to resolve incident",
                           io = "error", 0)
             /\ UNCHANGED pending_confirmations

\* a confirmation that does not look at the detected line
ConfirmedStoreNoSeed(inc, channel, detected_line) ==
    LET inc1 == IF ~is_active(inc, channel)
                THEN add_timeline_event(start_incident(inc, channel).store,
                         channel, "Incident confirmed by user", << >>, 0)
                ELSE inc
    IN  [inc1 EXCEPT ![channel] = normalize_actions(@)]

\* lines 311-327: the store after a confirmation; detected_line is what
\* pending_confirmations.pop(channel, None) gave, << >> for None
ConfirmedStore(inc, channel, detected_line) ==
    LET inc1 == IF ~is_active(inc, channel)
                THEN add_timeline_event(start_incident(inc, channel).store,
                         channel, "Incident confirmed by user", << >>, 0)
                ELSE inc
        inc2 == [inc1 EXCEPT ![channel] = normalize_actions(@)]
        abstract == IF detected_line = << >> THEN NoneTok
                    ELSE extract_abstract(detected_line)
    IN  IF /\ detected_line # << >>
           /\ inc2[channel].abstract \in {"", "TBD"}
           /\ abstract # NoneTok
        THEN add_timeline_event([inc2 EXCEPT ![channel].abstract = abstract],
                                channel, "Abstract set to", <<abstract>>, 0)
        ELSE inc2

\* confirm_incident(ack, body, client): lines 307-339; the button is in a
\* confirmation request posted to the channel
ConfirmIncident(channel, io) ==
    LET active == is_active(_INCIDENTS, channel)
        detected_line == IF channel \in DOMAIN pending_confirmations
                         THEN pending_confirmations[channel] ELSE << >>
        ts == NewTs(channel)
    IN  /\ slack[channel].prompt
        /\ _INCIDENTS' = ConfirmedStore(_INCIDENTS, channel, detected_line)
        /\ pending_confirmations' = Drop(pending_confirmations, channel)
        /\ PINNED_MESSAGES' = IF io = "ok" THEN Put(PINNED_MESSAGES, channel, ts)
                              ELSE PINNED_MESSAGES
        /\ slack' = [slack EXCEPT
                        ![channel].open = 0,
                        ![channel].pins = IF io = "ok" THEN @ \cup {ts} ELSE @]
        /\ UNCHANGED threads
        /\ out' = Out("confirm", channel, << >>,
                      IF active THEN "none" ELSE "True",
                      IF io = "ok" THEN "Incident tracking has started."
                      ELSE "none",
                      io = "error", 0)
        /\ UNCHANGED assigned
        /\ Bounded(_INCIDENTS', slack')

\* a dismissal that also drops the record of the channel
IgnoreAndClear(channel) ==
    /\ slack[channel].prompt
    /\ pending_confirmations' = Drop(pending_confirmations, channel)
    /\ slack' = [slack EXCEPT ![channel].open = 0]
    /\ _INCIDENTS' = clear(_INCIDENTS, channel)
    /\ UNCHANGED threads
    /\ out' = Out("ignore", channel, << >>, "none", "none", FALSE, 0)
    /\ UNCHANGED <<PINNED_MESSAGES, assigned>>

\* ignore_incident(ack, body): lines 343-346
IgnoreIncident(channel) ==
    /\ slack[channel].prompt
    /\ pending_confirmations' = Drop(pending_confirmations, channel)
    /\ slack' = [slack EXCEPT ![channel].open = 0]
    /\ UNCHANGED threads
    /\ out' = Out("ignore", channel, << >>, "none", "none", FALSE, 0)
    /\ UNCHANGED <<_INCIDENTS, PINNED_MESSAGES, assigned>>

\* an edit that records the event whether or not the item was found
ManageEditAlways(inc, channel, action_id, u) ==
    add_timeline_event([inc EXCEPT ![channel] = u.state], channel,
                       "Action updated via modal: #", << >>, action_id)

\* lines 552-553: u is what update_action_item gave
ManageEdit(inc, channel, action_id, u) ==
    IF u.found # 0
    THEN add_timeline_event([inc EXCEPT ![channel] = u.state], channel,
                            "Action updated via modal: #", << >>, action_id)
    ELSE [inc EXCEPT ![channel] = u.state]

\* lines 534-553: selected is the value of the chosen option, 0 for none
ManageSelected(n, channel, selected, status, created_by) ==
    IF selected = 0 THEN n
    ELSE [store |-> ManageEdit(n.store, channel, selected,
                      update_action_item(n.store[channel], selected, NoneText,
                                         NoneTok, NoneText, status,
                                         created_by)),
          added |-> n.added]

\* lines 530-531: add is what add_action_item gave
ManageAdded(inc, channel, add) ==
    [store |-> add_timeline_event([inc EXCEPT ![channel] = add.state],
                                  channel, "Action added via modal: #", << >>,
                                  add.item.id),
     added |-> <<add.item.id>>]

\* lines 523-531
ManageNew(inc, channel, new_text, created_by) ==
    IF Strip(new_text) # << >>
    THEN ManageAdded(inc, channel,
                     add_action_item(inc[channel], Strip(new_text),
                                     created_by, NoneTok, NoneText))
    ELSE [store |-> inc, added |-> << >>]

\* lines 555-566: the pinned summary is updated; a failure is logged. The
\* item of the report is the id that was selected
ManageRender(channel, selected, io, m) ==
    /\ _INCIDENTS' = m.store
    /\ assigned' = [assigned EXCEPT ![channel] = @ \o m.added]
    /\ UNCHANGED threads
    /\ out' = Out("manage", channel, << >>, "none",
                  IF channel \in DOMAIN PINNED_MESSAGES /\ io = "ok"
                  THEN "summary" ELSE "none",
                  channel \in DOMAIN PINNED_MESSAGES /\ io = "error", selected)
    /\ UNCHANGED <<PINNED_MESSAGES, pending_confirmations, slack>>
    /\ Bounded(_INCIDENTS', slack')

\* manage_actions_submit(ack, body, client, logger, view): lines 501-566
ManageActionsSubmit(channel, user, new_text, selected, status, io) ==
    IF ~is_active(_INCIDENTS, channel)
    THEN /\ UNCHANGED threads
         /\ out' = Out("manage", channel, << >>, "none", "none", FALSE, 0)
         /\ UNCHANGED <<_INCIDENTS, PINNED_MESSAGES, pending_confirmations,
                        slack, assigned>>
    ELSE ManageRender(channel, selected, io,
             ManageSelected(
                 ManageNew([_INCIDENTS EXCEPT
                                ![channel] = normalize_actions(@)],
                           channel, new_text, Mention(user)),
                 channel, selected, status, Mention(user)))

(***************************************************************************)
(* The bot: messages, commands and button clicks on a channel              *)
(***************************************************************************)
\* texts of one line (the blank one is the empty text) and of two lines,
\* one of them with a blank line first
LifecycleTexts ==
    {<<l>> : l \in LifecycleLines \cup {<< >>}}
        \cup {<<LineHigh, LineFixed>>, <<LineFixed, LineHigh>>,
               <<LineHello, LineHigh>>, <<LineMonitoring, LineEscalation>>,
               <<LineMonitoring, LineFixed>>, << << >>, LineHigh>>}

NoOut == Out("none", "none", << >>, "none", "none", FALSE, 0)

Init ==
    /\ _INCIDENTS = [c \in {} |-> NewRecord]
    /\ PINNED_MESSAGES = [c \in {} |-> 0]
    /\ pending_confirmations = [c \in {} |-> << >>]
    /\ slack = [c \in Channels |-> [prompt |-> FALSE, open |-> 0, pins |-> {}]]
    /\ assigned = [c \in Channels |-> << >>]
    /\ threads = NoThreads
    /\ out = NoOut

Next ==
    \/ \E c \in Channels, u \in Users, t \in LifecycleTexts,
          io \in IoOutcomes : HandleMessage(c, u, t, io)
    \/ \E c \in Channels, io \in IoOutcomes :
          HandleMessage(c, NoneTok, <<LineHigh>>, io)
    \/ \E c \in Channels, io \in IoOutcomes : ResolveIncident(c, io)
    \/ \E c \in Channels, io \in IoOutcomes : ConfirmIncident(c, io)
    \/ \E c \in Channels : IgnoreIncident(c)

Spec == Init /\ [][Next]_vars

(***************************************************************************)
(* The ledger of one incident record: the functions of action_items.py and *)
(* the store's add_action, called on the record of a started incident      *)
(***************************************************************************)
LedgerChannel == "C1"

\* texts given to add_action_item and to add_action (one of each is blank)
ActionTexts == {<<"restart", "service">>, <<Pad>>}
LegacyTexts == {<<Pad, "call", "vendor">>, <<Pad>>}

LedgerStep(state, op, raised, item) ==
    /\ _INCIDENTS' = [_INCIDENTS EXCEPT ![LedgerChannel] = state]
    /\ UNCHANGED threads
    /\ out' = Out(op, LedgerChannel, << >>, "none", "none", raised, item)
    /\ UNCHANGED <<PINNED_MESSAGES, pending_confirmations, slack>>
    /\ Bounded(_INCIDENTS', slack')

\* incident_state.add_action(channel, action)
StoreAddAction(action) ==
    /\ _INCIDENTS' = add_action(_INCIDENTS, LedgerChannel, LegacyString(action))
    /\ UNCHANGED threads
    /\ out' = Out("add_action", LedgerChannel, << >>, "none", "none", FALSE, 0)
    /\ UNCHANGED <<PINNED_MESSAGES, pending_confirmations, slack, assigned>>
    /\ Bounded(_INCIDENTS', slack')

LedgerNormalize ==
    /\ LedgerStep(normalize_actions(_INCIDENTS[LedgerChannel]), "normalize",
                  FALSE, 0)
    /\ UNCHANGED assigned

LedgerSplit ==
    /\ LedgerStep(split_actions(_INCIDENTS[LedgerChannel]).state, "split",
                  FALSE, 0)
    /\ UNCHANGED assigned

LedgerAdd(text, created_by, owner) ==
    LET r == add_action_item(_INCIDENTS[LedgerChannel], text, created_by,
                             owner, NoneText)
    IN  /\ LedgerStep(r.state, "add", r.raised,
                      IF r.raised THEN 0 ELSE r.item.id)
        /\ assigned' = IF r.raised THEN assigned
                       ELSE [assigned EXCEPT ![LedgerChannel] =
                                                 Append(@, r.item.id)]

LedgerUpdate(action_id, text, owner, status, done_by) ==
    LET r == update_action_item(_INCIDENTS[LedgerChannel], action_id, text,
                                owner, NoneText, status, done_by)
    IN  /\ LedgerStep(r.state, "update", FALSE,
                      IF r.found = 0 THEN 0 ELSE action_id)
        /\ UNCHANGED assigned

\* the record of an incident that has just been started
InitLedger ==
    /\ _INCIDENTS = start_incident([c \in {} |-> NewRecord], LedgerChannel).store
    /\ PINNED_MESSAGES = [c \in {} |-> 0]
    /\ pending_confirmations = [c \in {} |-> << >>]
    /\ slack = [c \in Channels |-> [prompt |-> FALSE, open |-> 0, pins |-> {}]]
    /\ assigned = [c \in Channels |-> << >>]
    /\ threads = NoThreads
    /\ out = NoOut

NextLedger ==
    \/ \E action \in LegacyTexts : StoreAddAction(action)
    \/ LedgerNormalize
    \/ LedgerSplit
    \/ \E text \in ActionTexts : LedgerAdd(text, Mention("U1"), NoneTok)
    \/ \E action_id \in 1..(MaxActions + 1),
          text \in {NoneText, <<"call", "vendor">>},
          status \in {NoneTok, "open", "done"} :
          LedgerUpdate(action_id, text, NoneTok, status, Mention("U1"))

SpecLedger == InitLedger /\ [][NextLedger]_vars

(***************************************************************************)
(* The actions of an incident: the messages that carry an action, the      *)
(* submissions of the Manage Actions modal and update_action_item, on a    *)
(* started incident                                                        *)
(***************************************************************************)
LineRestart == <<"restart", "service">>

\* one action line, the same line twice in one message
ActionMessages == {<<LineRestart>>, <<LineRestart, LineRestart>>}

\* the texts typed into the modal: none, blank, an action
ModalTexts == {<< >>, <<Pad>>, <<"restart", "service", Pad>>}

NextActions ==
    \/ \E action_id \in 1..(MaxActions + 1), status \in {"open", "done"},
          done_by \in {NoneTok, Mention("U1")} :
          LedgerUpdate(action_id, NoneText, NoneTok, status, done_by)
    \/ \E text \in ActionMessages, io \in IoOutcomes :
          HandleMessage(LedgerChannel, "U1", text, io)
    \/ \E new_text \in ModalTexts, selected \in 0..(MaxActions + 1),
          status \in {NoneTok, "open", "done"}, io \in IoOutcomes :
          ManageActionsSubmit(LedgerChannel, "U1", new_text, selected,
                              status, io)

SpecActions == InitLedger /\ [][NextActions]_vars

(***************************************************************************)
(* The bot on messages that carry an abstract or links                     *)
(***************************************************************************)
LineLogin == <<"login", "page">>
LineEscalationHigh == <<"P1", "escalation">>
LineRunbook == <<"see", "https://wiki/runbook">>
LineRunbookTwice == <<"https://wiki/runbook", "https://wiki/runbook">>
LineJira == <<"https://jira/browse/OPS-12">>
LineFaqRunbook == <<"https://wiki/faq", "https://wiki/runbook">>

FieldTexts ==
    {<<LineHigh>>, <<LineEscalationHigh>>, <<LineFixed>>, <<LineEscalation>>,
     <<LineLogin>>,
     <<LineRunbook>>, <<LineRunbookTwice>>, <<LineJira>>,
     <<LineFaqRunbook>>}

NextFields ==
    \/ \E c \in Channels, t \in FieldTexts, io \in IoOutcomes :
          HandleMessage(c, "U1", t, io)
    \/ \E c \in Channels, io \in IoOutcomes : ResolveIncident(c, io)
    \/ \E c \in Channels, io \in IoOutcomes : ConfirmIncident(c, io)
    \/ \E c \in Channels : IgnoreIncident(c)

SpecFields == Init /\ [][NextFields]_vars

(***************************************************************************)
(* The intent classifier on one line: the line is drawn first, then        *)
(* classify_incident_intent is applied to it                               *)
(***************************************************************************)
LineRegression == <<"there", "is", "a", "regression", "in", "checkout">>

ClassifierWords ==
    {"P1", "bug", "debugging", "issues", "prod", "down", "hello"}

\* the empty line, the lines of up to MaxWords of these words, and a line
\* of six words
MaxWords == 3

ClassifierLines ==
    UNION {[1..n -> ClassifierWords] : n \in 0..MaxWords}
        \cup {LineRegression}

InitClassifier ==
    /\ _INCIDENTS = [c \in {} |-> NewRecord]
    /\ PINNED_MESSAGES = [c \in {} |-> 0]
    /\ pending_confirmations = [c \in {} |-> << >>]
    /\ slack = [c \in Channels |-> [prompt |-> FALSE, open |-> 0, pins |-> {}]]
    /\ assigned = [c \in Channels |-> << >>]
    /\ threads = NoThreads
    /\ \E line \in ClassifierLines :
          out = Out("line", "none", <<line>>, "none", "none", FALSE, 0)

\* the reply of the report is what classify_incident_intent returned
Classify ==
    /\ out.op = "line"
    /\ UNCHANGED threads
    /\ out' = [out EXCEPT !.op = "classify",
                          !.reply = classify_incident_intent(out.lines[1])]
    /\ UNCHANGED <<_INCIDENTS, PINNED_MESSAGES, pending_confirmations, slack,
                   assigned>>

NextClassifier == Classify

SpecClassifier == InitClassifier /\ [][NextClassifier]_vars

(***************************************************************************)
(* normalize_actions on any incident state: the entries of "actions" are   *)
(* legacy strings, items, items without an int id or with another status;  *)
(* "actions" or "next_action_id" may be missing, the next id may be        *)
(* below 1                                                                 *)
(***************************************************************************)
AnyEntries ==
    {LegacyString(<<Pad, "call", "vendor">>),
     Item(1, <<"restart", "service">>, NoneTok, NoneText, "open", NowTs,
          NoneTok, NoneTok, NoneTok),
     Item(2, <<"call", "vendor">>, Mention("U2"), NoneText, "done", NowTs,
          Mention("U1"), NowTs, Mention("U1")),
     [Item(0, <<"restart", "service", Pad>>, NoneTok, NoneText, "open",
           NoneTok, NoneTok, NoneTok, NoneTok) EXCEPT !.int_id = FALSE],
     Item(3, <<"page", "oncall">>, NoneTok, NoneText, "blocked", NowTs,
          NoneTok, NoneTok, NoneTok)}

AnyActions ==
    {<< >>} \cup {<<a>> : a \in AnyEntries}
        \cup {<<a, b>> : a \in AnyEntries, b \in AnyEntries}

AnyNextIds == (-1)..3

AnyStates ==
    LET full == {[NewRecord EXCEPT !.actions = a, !.next_action_id = n] :
                     a \in AnyActions, n \in AnyNextIds}
        no_next == {Drop(st, "next_action_id") : st \in full}
    IN  full \cup no_next \cup {Drop(st, "actions") : st \in full \cup no_next}

InitNormalize ==
    /\ _INCIDENTS \in {(LedgerChannel :> st) : st \in AnyStates}
    /\ PINNED_MESSAGES = [c \in {} |-> 0]
    /\ pending_confirmations = [c \in {} |-> << >>]
    /\ slack = [c \in Channels |-> [prompt |-> FALSE, open |-> 0, pins |-> {}]]
    /\ assigned = [c \in Channels |-> << >>]
    /\ threads = NoThreads
    /\ out = NoOut

NextNormalize == LedgerNormalize

SpecNormalize == InitNormalize /\ [][NextNormalize]_vars

(***************************************************************************)
(* The bot on two channels                                                 *)
(***************************************************************************)
TwoChannels == {"C1", "C2"}

\* a HIGH line and a MEDIUM line
ChannelTexts == {<<LineHigh>>, <<LineEscalation>>}

InitChannels ==
    /\ _INCIDENTS = [c \in {} |-> NewRecord]
    /\ PINNED_MESSAGES = [c \in {} |-> 0]
    /\ pending_confirmations = [c \in {} |-> << >>]
    /\ slack = [c \in TwoChannels |->
                   [prompt |-> FALSE, open |-> 0, pins |-> {}]]
    /\ assigned = [c \in TwoChannels |-> << >>]
    /\ threads = NoThreads
    /\ out = NoOut

NextChannels ==
    \/ \E c \in TwoChannels, t \in ChannelTexts :
          HandleMessage(c, "U1", t, "ok")
    \/ \E c \in TwoChannels : ResolveIncident(c, "ok")
    \/ \E c \in TwoChannels : ConfirmIncident(c, "ok")
    \/ \E c \in TwoChannels : IgnoreIncident(c)
    \/ \E c \in TwoChannels, selected \in 0..1 :
          ManageActionsSubmit(c, "U1", <<"call", "vendor">>, selected,
                              "done", "ok")

SpecChannels == InitChannels /\ [][NextChannels]_vars

(***************************************************************************)
(* Every handler that works on the store, on one channel: messages (one    *)
(* of them a line that sets the status to Resolved), the resolve command,  *)
(* the two buttons of the prompt and the submit of the modal               *)
(***************************************************************************)
LineResolved == <<"resolved", "now">>
HandlerTexts == {<<LineHigh>>, <<LineEscalation>>, <<LineResolved>>}

NextHandlers ==
    \/ \E t \in HandlerTexts, io \in IoOutcomes :
          HandleMessage(LedgerChannel, "U1", t, io)
    \/ \E io \in IoOutcomes : ResolveIncident(LedgerChannel, io)
    \/ \E io \in IoOutcomes : ConfirmIncident(LedgerChannel, io)
    \/ IgnoreIncident(LedgerChannel)
    \/ \E selected \in 0..1, io \in IoOutcomes :
          ManageActionsSubmit(LedgerChannel, "U1", <<"call", "vendor">>,
                              selected, "done", io)

SpecHandlers == Init /\ [][NextHandlers]_vars

(***************************************************************************)
(* Messages of one line each, from two senders, to an incident that has    *)
(* just been started: lines that several detectors of the loop find        *)
(* something in                                                            *)
(***************************************************************************)
LineAsk == <<"<@U1>", "can", "you", "take", "this">>
LineYes == <<"yes">>
LineIWill == <<"i", "will">>
LineMonitoringRestart == <<"monitoring", "restart", "service">>
LineIllRestart == <<"I'll", "restart", "service">>
LineMonitoringRunbook == <<"monitoring", "https://wiki/runbook">>

PipelineLines ==
    {LineAsk, LineYes, LineIWill, LineMonitoringRestart, LineIllRestart,
     LineMonitoringRunbook, LineJira}

NextPipeline ==
    \E user \in Users, line \in PipelineLines :
        HandleMessage(LedgerChannel, user, <<line>>, "ok")

SpecPipeline == InitLedger /\ [][NextPipeline]_vars

(***************************************************************************)
(* Worker threads.  The listeners run on the threads of the executor and   *)
(* the modules take no lock: a thread can be switched between any two      *)
(* statements of a call.  Each thread of the model makes one call on the   *)
(* channel, statement by statement; pc is the line of the statement it is  *)
(* at, "done" after the return                                             *)
(***************************************************************************)
RaceChannel == "C1"

\* the thread goes on with the changes ch of its locals
Goto(t, ch) == threads' = [threads EXCEPT ![t] = ch @@ @]

\* the same, and the record of the channel is removed or replaced: the
\* `state` of the other threads is the channel's record no more
GotoDropping(t, ch) ==
    threads' = [u \in Threads |->
                   IF u = t THEN ch @@ threads[u]
                   ELSE [threads[u] EXCEPT !.alias = FALSE]]

\* the thread's `state` is the record of the channel
Holds(t) == threads[t].alias /\ RaceChannel \in DOMAIN _INCIDENTS

\* the store after the thread has changed its `state` to rec
Store(t, rec) ==
    IF Holds(t) THEN [_INCIDENTS EXCEPT ![RaceChannel] = rec] ELSE _INCIDENTS

At(t, op, pc) == threads[t].op = op /\ threads[t].pc = pc

\* a thread enters start_incident(channel)
StartCall(t) ==
    /\ At(t, "idle", "idle")
    /\ Goto(t, [op |-> "start", pc |-> "15"])
    /\ UNCHANGED <<_INCIDENTS, PINNED_MESSAGES, pending_confirmations, slack,
                   assigned, out>>

\* incident_state.py lines 15-16
StartCheck(t) ==
    /\ At(t, "start", "15")
    /\ IF RaceChannel \in DOMAIN _INCIDENTS
       THEN Goto(t, [pc |-> "done", ret |-> "False"])
       ELSE Goto(t, [pc |-> "18"])
    /\ UNCHANGED <<_INCIDENTS, PINNED_MESSAGES, pending_confirmations, slack,
                   assigned, out>>

\* incident_state.py lines 18-32
StartCreate(t) ==
    /\ At(t, "start", "18")
    /\ _INCIDENTS' = Put(_INCIDENTS, RaceChannel, NewRecord)
    /\ GotoDropping(t, [pc |-> "34"])
    /\ UNCHANGED <<PINNED_MESSAGES, pending_confirmations, slack, assigned,
                   out>>

\* incident_state.py lines 34-35
StartEvent(t) ==
    /\ At(t, "start", "34")
    /\ _INCIDENTS' = add_timeline_event(_INCIDENTS, RaceChannel,
                                        "Incident detected", << >>, 0)
    /\ Goto(t, [pc |-> "done", ret |-> "True"])
    /\ UNCHANGED <<PINNED_MESSAGES, pending_confirmations, slack, assigned,
                   out>>

\* the text a thread gives to add_action_item
ThreadText(t) ==
    IF t = 1 THEN <<"restart", "service">> ELSE <<"call", "vendor">>

\* a handler that holds the record of the active incident in `state`
\* enters add_action_item(state, text, created_by=...)
AddCall(t) ==
    /\ At(t, "idle", "idle")
    /\ RaceChannel \in DOMAIN _INCIDENTS
    /\ Goto(t, [op |-> "add", pc |-> "26", alias |-> TRUE,
                text |-> ThreadText(t)])
    /\ UNCHANGED <<_INCIDENTS, PINNED_MESSAGES, pending_confirmations, slack,
                   assigned, out>>

\* action_items.py lines 26-105 of normalize_actions: the loops read the
\* list and the counter into normalized, next_id and max_id; r is what
\* they leave
NormalizeRead(t, r) ==
    /\ Goto(t, [pc |-> "107", list |-> r.actions, next_id |-> r.next_id,
                max_id |-> r.max_id])
    /\ UNCHANGED <<_INCIDENTS, PINNED_MESSAGES, pending_confirmations, slack,
                   assigned, out>>

AddNormalize(t) ==
    /\ At(t, "add", "26")
    /\ IF Holds(t)
       THEN NormalizeRead(t,
                NormalizeLoop(_INCIDENTS[RaceChannel].actions, 1,
                              ValidNextId(_INCIDENTS[RaceChannel]), 0, << >>))
       ELSE NormalizeRead(t, [actions |-> << >>, next_id |-> 1, max_id |-> 0])

\* action_items.py line 107: state["actions"] = normalized
AddReplace(t) ==
    /\ At(t, "add", "107")
    /\ _INCIDENTS' = Store(t, [_INCIDENTS[RaceChannel] EXCEPT
                                  !.actions = threads[t].list])
    /\ Goto(t, [pc |-> "108"])
    /\ UNCHANGED <<PINNED_MESSAGES, pending_confirmations, slack, assigned,
                   out>>

\* action_items.py line 108
AddCounter(t) ==
    /\ At(t, "add", "108")
    /\ _INCIDENTS' = Store(t, [_INCIDENTS[RaceChannel] EXCEPT
                                  !.next_action_id =
                                      Max(Max(threads[t].max_id + 1,
                                              threads[t].next_id), 1)])
    /\ Goto(t, [pc |-> "151"])
    /\ UNCHANGED <<PINNED_MESSAGES, pending_confirmations, slack, assigned,
                   out>>

\* action_items.py lines 147-151: the text is not blank; item_id is read
AddReadId(t) ==
    /\ At(t, "add", "151")
    /\ Goto(t, [pc |-> "152",
                item_id |-> IF Holds(t)
                            THEN _INCIDENTS[RaceChannel].next_action_id
                            ELSE threads[t].next_id])
    /\ UNCHANGED <<_INCIDENTS, PINNED_MESSAGES, pending_confirmations, slack,
                   assigned, out>>

\* action_items.py line 152
AddWriteId(t) ==
    /\ At(t, "add", "152")
    /\ _INCIDENTS' = Store(t, [_INCIDENTS[RaceChannel] EXCEPT
                                  !.next_action_id = threads[t].item_id + 1])
    /\ Goto(t, [pc |-> "165"])
    /\ UNCHANGED <<PINNED_MESSAGES, pending_confirmations, slack, assigned,
                   out>>

\* action_items.py lines 154-166
AddAppend(t) ==
    /\ At(t, "add", "165")
    /\ _INCIDENTS' = Store(t, [_INCIDENTS[RaceChannel] EXCEPT
                                  !.actions = Append(@,
                                      NewItem(threads[t].item_id,
                                              threads[t].text,
                                              Mention("U1"), NoneTok,
                                              NoneText))])
    /\ Goto(t, [pc |-> "done", ret |-> "item"])
    /\ UNCHANGED <<PINNED_MESSAGES, pending_confirmations, slack, assigned,
                   out>>

\* a handler enters handle_message with the one line "monitoring now"
MessageCall(t) ==
    /\ At(t, "idle", "idle")
    /\ Goto(t, [op |-> "message", pc |-> "83"])
    /\ UNCHANGED <<_INCIDENTS, PINNED_MESSAGES, pending_confirmations, slack,
                   assigned, out>>

\* app.py lines 56-90: the line is LOW; the handler returns when no
\* incident is active, else it takes the record
MessageActive(t) ==
    /\ At(t, "message", "83")
    /\ IF is_active(_INCIDENTS, RaceChannel)
       THEN Goto(t, [pc |-> "93", alias |-> TRUE])
       ELSE Goto(t, [pc |-> "done", ret |-> "ignored"])
    /\ UNCHANGED <<_INCIDENTS, PINNED_MESSAGES, pending_confirmations, slack,
                   assigned, out>>

\* app.py lines 93-140 for the line: the status is written to `state`,
\* the event goes to the record the store holds for the channel
MessageStatus(t) ==
    /\ At(t, "message", "93")
    /\ _INCIDENTS' =
           add_timeline_event(
               Store(t, [_INCIDENTS[RaceChannel] EXCEPT
                            !.status = extract_status(LineMonitoring)]),
               RaceChannel, "Status updated to",
               <<extract_status(LineMonitoring)>>, 0)
    /\ Goto(t, [pc |-> "224"])
    /\ UNCHANGED <<PINNED_MESSAGES, pending_confirmations, slack, assigned,
                   out>>

\* app.py lines 224-244, updated being True
MessageRender(t) ==
    /\ At(t, "message", "224")
    /\ PINNED_MESSAGES' =
           IF RaceChannel \in DOMAIN PINNED_MESSAGES THEN PINNED_MESSAGES
           ELSE Put(PINNED_MESSAGES, RaceChannel, NewTs(RaceChannel))
    /\ slack' =
           IF RaceChannel \in DOMAIN PINNED_MESSAGES THEN slack
           ELSE [slack EXCEPT ![RaceChannel].pins = @ \cup {NewTs(RaceChannel)}]
    /\ _INCIDENTS' = Store(t, [_INCIDENTS[RaceChannel] EXCEPT
                                  !.just_started = FALSE])
    /\ Goto(t, [pc |-> "done", ret |-> "summary"])
    /\ UNCHANGED <<pending_confirmations, assigned, out>>

\* a handler enters resolve_incident
ResolveCall(t) ==
    /\ At(t, "idle", "idle")
    /\ Goto(t, [op |-> "resolve", pc |-> "257"])
    /\ UNCHANGED <<_INCIDENTS, PINNED_MESSAGES, pending_confirmations, slack,
                   assigned, out>>

\* app.py lines 257-265
ResolveActive(t) ==
    /\ At(t, "resolve", "257")
    /\ IF is_active(_INCIDENTS, RaceChannel)
       THEN Goto(t, [pc |-> "268", alias |-> TRUE])
       ELSE Goto(t, [pc |-> "done", ret |-> "no incident"])
    /\ UNCHANGED <<_INCIDENTS, PINNED_MESSAGES, pending_confirmations, slack,
                   assigned, out>>

\* app.py lines 268-269
ResolveStatus(t) ==
    /\ At(t, "resolve", "268")
    /\ _INCIDENTS' =
           add_timeline_event(
               Store(t, [_INCIDENTS[RaceChannel] EXCEPT !.status = "Resolved"]),
               RaceChannel, "Incident resolved", << >>, 0)
    /\ Goto(t, [pc |-> "272"])
    /\ UNCHANGED <<PINNED_MESSAGES, pending_confirmations, slack, assigned,
                   out>>

\* app.py lines 272-288
ResolveUnpin(t) ==
    /\ At(t, "resolve", "272")
    /\ PINNED_MESSAGES' = Drop(PINNED_MESSAGES, RaceChannel)
    /\ slack' =
           IF RaceChannel \in DOMAIN PINNED_MESSAGES
           THEN [slack EXCEPT ![RaceChannel].pins =
                                 @ \ {PINNED_MESSAGES[RaceChannel]}]
           ELSE slack
    /\ Goto(t, [pc |-> "291"])
    /\ UNCHANGED <<_INCIDENTS, pending_confirmations, assigned, out>>

\* app.py lines 291-297
ResolveClear(t) ==
    /\ At(t, "resolve", "291")
    /\ _INCIDENTS' = clear(_INCIDENTS, RaceChannel)
    /\ GotoDropping(t, [pc |-> "done", ret |-> "resolved"])
    /\ UNCHANGED <<PINNED_MESSAGES, pending_confirmations, slack, assigned,
                   out>>

\* no incident, or an incident that was started, with or without its
\* pinned summary
InitThreads ==
    /\ \E active, pinned \in BOOLEAN :
          /\ pinned => active
          /\ _INCIDENTS =
                 IF active
                 THEN start_incident([c \in {} |-> NewRecord],
                                     RaceChannel).store
                 ELSE [c \in {} |-> NewRecord]
          /\ PINNED_MESSAGES =
                 IF pinned THEN (RaceChannel :> 1) ELSE [c \in {} |-> 0]
          /\ slack = [c \in Channels |->
                         [prompt |-> FALSE, open |-> 0,
                          pins |-> IF pinned THEN {1} ELSE {}]]
    /\ pending_confirmations = [c \in {} |-> << >>]
    /\ assigned = [c \in Channels |-> << >>]
    /\ threads = NoThreads
    /\ out = NoOut

NextThreads ==
    \/ \E t \in Threads : StartCall(t)
    \/ \E t \in Threads : StartCheck(t)
    \/ \E t \in Threads : StartCreate(t)
    \/ \E t \in Threads : StartEvent(t)
    \/ \E t \in Threads : AddCall(t)
    \/ \E t \in Threads : AddNormalize(t)
    \/ \E t \in Threads : AddReplace(t)
    \/ \E t \in Threads : AddCounter(t)
    \/ \E t \in Threads : AddReadId(t)
    \/ \E t \in Threads : AddWriteId(t)
    \/ \E t \in Threads : AddAppend(t)
    \/ \E t \in Threads : MessageCall(t)
    \/ \E t \in Threads : MessageActive(t)
    \/ \E t \in Threads : MessageStatus(t)
    \/ \E t \in Threads : MessageRender(t)
    \/ \E t \in Threads : ResolveCall(t)
    \/ \E t \in Threads : ResolveActive(t)
    \/ \E t \in Threads : ResolveStatus(t)
    \/ \E t \in Threads : ResolveUnpin(t)
    \/ \E t \in Threads : ResolveClear(t)

SpecThreads == InitThreads /\ [][NextThreads]_vars

(***************************************************************************)
(* Properties                                                              *)
(***************************************************************************)

\* C1: start_incident returns True exactly when the channel has no record
\* and False otherwise, and the timeline of every record holds exactly one
\* "Incident detected" event.
C1_StartOnce ==
    [][/\ out'.started # "none" =>
              (out'.started = "True" <=> out'.channel \notin DOMAIN _INCIDENTS)
       /\ \A c \in DOMAIN _INCIDENTS' :
              Cardinality({i \in DOMAIN _INCIDENTS'[c].timeline :
                  _INCIDENTS'[c].timeline[i].msg = "Incident detected"}) = 1
      ]_vars

\* a second start on a channel that has a record returned False
C1_Witness ==
    /\ out.op = "message"
    /\ out.started = "False"
    /\ out.channel \in DOMAIN _INCIDENTS
    /\ Len(_INCIDENTS[out.channel].timeline) > 1

\* C2 as stated: a message with a HIGH line, processed for a channel with no
\* active incident, leaves the channel with an active incident.
C2_AnyHighLineStarts ==
    [][(/\ out'.op = "message"
        /\ out'.channel \notin DOMAIN _INCIDENTS
        /\ \E i \in DOMAIN out'.lines :
               classify_incident_intent(out'.lines[i]) = "HIGH")
          => out'.channel \in DOMAIN _INCIDENTS'
      ]_vars

\* C2 amended: a message processed for a channel with no active incident
\* leaves the channel with an active incident exactly when its first line
\* that is not LOW is HIGH.
C2_FirstHighLineStarts ==
    [][(out'.op = "message" /\ out'.channel \notin DOMAIN _INCIDENTS)
          => ((\E i \in DOMAIN out'.lines :
                  /\ classify_incident_intent(out'.lines[i]) = "HIGH"
                  /\ \A j \in 1..(i - 1) :
                         classify_incident_intent(out'.lines[j]) = "LOW")
              <=> out'.channel \in DOMAIN _INCIDENTS')
      ]_vars

\* a message with a HIGH line and then a MEDIUM line started an incident
C2_Witness ==
    /\ out.op = "message"
    /\ out.started = "True"
    /\ Len(out.lines) = 2
    /\ classify_incident_intent(out.lines[1]) = "HIGH"
    /\ classify_incident_intent(out.lines[2]) = "MEDIUM"
    /\ out.channel \in DOMAIN _INCIDENTS

\* C3: on a channel with an active incident, a one-line message whose line
\* yields a status other than the record's (and is no owner question or
\* confirmation) sets the record's status and appends a timeline entry,
\* whatever the intent class of the line.
C3_EveryLineExtracted ==
    [][(/\ out'.op = "message"
        /\ out'.channel \in DOMAIN _INCIDENTS
        /\ Len(out'.lines) = 1
        /\ ~detect_owner_question(out'.lines[1])
        /\ Lower(out'.lines[1]) \notin ConfirmWords
        /\ extract_status(out'.lines[1]) \notin
               {NoneTok, _INCIDENTS[out'.channel].status})
          => /\ out'.channel \in DOMAIN _INCIDENTS'
             /\ _INCIDENTS'[out'.channel].status = extract_status(out'.lines[1])
             /\ Len(_INCIDENTS'[out'.channel].timeline) >
                    Len(_INCIDENTS[out'.channel].timeline)
      ]_vars

\* C4: no channel has both an incident record and a pending marker.
C4_ExclusiveStates ==
    \A c \in Channels :
        ~(c \in DOMAIN _INCIDENTS /\ c \in DOMAIN pending_confirmations)

\* C5: a confirmation request is emitted for a channel only when it has no
\* record and no pending marker, the marker is recorded with it, and it is
\* the only request since the last confirm or dismiss click on the channel.
C5_OneRequest ==
    [][\A c \in Channels :
          slack'[c].open > slack[c].open =>
              /\ c \notin DOMAIN _INCIDENTS
              /\ c \notin DOMAIN pending_confirmations
              /\ c \in DOMAIN pending_confirmations'
              /\ out'.op = "message"
              /\ slack'[c].open = 1
      ]_vars

\* a MEDIUM message arrived on a channel with a request open: none was sent
C5_Witness ==
    /\ out.op = "message"
    /\ Len(out.lines) > 0
    /\ classify_incident_intent(out.lines[1]) = "MEDIUM"
    /\ out.reply = "none"
    /\ ~out.raised
    /\ out.channel \notin DOMAIN _INCIDENTS
    /\ out.channel \in DOMAIN pending_confirmations
    /\ slack[out.channel].open = 1

\* C6: a confirm click on a channel that has a pending marker and no record
\* creates the record, removes the marker, makes "Incident detected" and
\* "Incident confirmed by user" the first two events, and sets the abstract
\* to the one the detected line yields when it yields one.
C6_ConfirmPending ==
    [][(/\ out'.op = "confirm"
        /\ out'.channel \in DOMAIN pending_confirmations
        /\ out'.channel \notin DOMAIN _INCIDENTS)
          => /\ out'.channel \in DOMAIN _INCIDENTS'
             /\ out'.channel \notin DOMAIN pending_confirmations'
             /\ LET state == _INCIDENTS'[out'.channel]
                    abstract ==
                        extract_abstract(pending_confirmations[out'.channel])
                IN  /\ Len(state.timeline) >= 2
                    /\ state.timeline[1].msg = "Incident detected"
                    /\ state.timeline[2].msg = "Incident confirmed by user"
                    /\ state.abstract =
                           IF abstract = NoneTok THEN "TBD" ELSE abstract
                    /\ abstract # NoneTok =>
                           /\ Len(state.timeline) = 3
                           /\ state.timeline[3].msg = "Abstract set to"
                           /\ state.timeline[3].arg = <<abstract>>
      ]_vars

\* a confirm click started an incident and seeded its abstract
C6_Witness ==
    /\ out.op = "confirm"
    /\ out.started = "True"
    /\ out.channel \in DOMAIN _INCIDENTS
    /\ out.channel \notin DOMAIN pending_confirmations
    /\ _INCIDENTS[out.channel].abstract = "Software Bug"

\* C7: after a resolve of a channel with an active incident the channel has
\* no record.
C7_ResolveRemoves ==
    [][(out'.op = "resolve" /\ out'.channel \in DOMAIN _INCIDENTS)
          => out'.channel \notin DOMAIN _INCIDENTS'
      ]_vars

\* C8: a resolve of a channel with no active incident leaves the store, the
\* pending markers and the pinned-message entries as they were and reports
\* that there is no active incident.
C8_ResolveInactive ==
    [][(out'.op = "resolve" /\ out'.channel \notin DOMAIN _INCIDENTS)
          => /\ UNCHANGED <<_INCIDENTS, PINNED_MESSAGES,
                            pending_confirmations, slack>>
             /\ out'.reply = "No active incident found in this channel."
      ]_vars

\* a resolve on a channel with a pending marker and no incident
C8_Witness ==
    /\ out.op = "resolve"
    /\ out.reply = "No active incident found in this channel."
    /\ out.channel \notin DOMAIN _INCIDENTS
    /\ out.channel \in DOMAIN pending_confirmations

\* C9: in a record, the ids add_action_item has returned are strictly
\* increasing, each of them is the id of exactly one item, and no step
\* changes the id of an item.
C9_IdsNeverReused ==
    [][\A c \in DOMAIN _INCIDENTS \cap DOMAIN _INCIDENTS' :
          LET before == _INCIDENTS[c].actions
              after == _INCIDENTS'[c].actions
              ids == assigned'[c]
          IN  /\ \A i, j \in DOMAIN ids : i < j => ids[i] < ids[j]
              /\ \A i \in DOMAIN ids :
                     Cardinality({k \in DOMAIN after :
                         after[k].kind = "dict" /\ after[k].id = ids[i]}) = 1
              /\ \A k \in DOMAIN before :
                     before[k].kind = "dict" =>
                         /\ k \in DOMAIN after
                         /\ after[k].id = before[k].id
      ]_vars

\* two adds with the migration of a legacy entry between them, then the
\* first item marked done
C9_Witness ==
    /\ out.op = "update"
    /\ out.item # 0
    /\ assigned[LedgerChannel] = <<1, 3>>
    /\ \E k \in DOMAIN _INCIDENTS[LedgerChannel].actions :
           LET a == _INCIDENTS[LedgerChannel].actions[k]
           IN  a.id = out.item /\ a.id = 1 /\ a.status = "done"

\* C10: after normalize_actions, split_actions, add_action_item or
\* update_action_item every entry is an item whose id is below
\* next_action_id, next_action_id is at least 1, and no step lowers it.
C10_NextIdAbove ==
    [][\A c \in DOMAIN _INCIDENTS \cap DOMAIN _INCIDENTS' :
          LET state == _INCIDENTS'[c]
          IN  /\ state.next_action_id >= _INCIDENTS[c].next_action_id
              /\ (out'.op \in {"normalize", "split", "add", "update"}
                      /\ out'.channel = c) =>
                     /\ state.next_action_id >= 1
                     /\ \A k \in DOMAIN state.actions :
                            /\ state.actions[k].kind = "dict"
                            /\ state.actions[k].id < state.next_action_id
      ]_vars

\* an add returned the id 2 and left next_action_id at 3
C10_Witness ==
    /\ out.op = "add"
    /\ ~out.raised
    /\ out.item = 2
    /\ _INCIDENTS[LedgerChannel].next_action_id = 3

Structured(inc) ==
    IF "actions" \in DOMAIN inc[LedgerChannel]
    THEN {i \in DOMAIN inc[LedgerChannel].actions :
             /\ inc[LedgerChannel].actions[i].kind = "dict"
             /\ inc[LedgerChannel].actions[i].int_id}
    ELSE {}

C13_BlankAddRejected ==
    [][\A text \in ActionTexts :
          (out'.op = "add" /\ LedgerAdd(text, Mention("U1"), NoneTok))
             => /\ (Strip(text) = << >>) = out'.raised
                /\ normalize_actions(_INCIDENTS[LedgerChannel]) =
                       _INCIDENTS[LedgerChannel]
                   => IF out'.raised
                      THEN _INCIDENTS' = _INCIDENTS
                      ELSE out'.item = _INCIDENTS[LedgerChannel].next_action_id
      ]_vars

\* an add was rejected on a record that holds two items
C13_Witness ==
    /\ out.op = "add"
    /\ out.raised
    /\ Len(_INCIDENTS[LedgerChannel].actions) = 2
    /\ _INCIDENTS[LedgerChannel].next_action_id = 3

\* C14: every action item of the record has a text that is not empty after
\* strip().
C14_ItemTextNonEmpty ==
    \A i \in Structured(_INCIDENTS) :
       Strip(_INCIDENTS[LedgerChannel].actions[i].text) # << >>

\* no entry of the record's actions in inc has the id action_id
NoItem(inc, action_id) ==
    \A i \in DOMAIN inc[LedgerChannel].actions :
       inc[LedgerChannel].actions[i].id # action_id

\* C15: update_action_item with an id that no item has returns None and does
\* not raise, and on a state that normalize_actions leaves as it is the
\* record stays as it was; a submission of the modal that selects such an
\* id appends no "Action updated" event to the timeline.
C15_UpdateMiss ==
    [][/\ \A action_id \in 1..(MaxActions + 1), status \in {"open", "done"},
             done_by \in {NoneTok, Mention("U1")} :
             /\ out'.op = "update"
             /\ NoItem(_INCIDENTS, action_id)
             /\ LedgerUpdate(action_id, NoneText, NoneTok, status, done_by)
             => /\ out'.item = 0
                /\ ~out'.raised
                /\ normalize_actions(_INCIDENTS[LedgerChannel]) =
                       _INCIDENTS[LedgerChannel]
                   => _INCIDENTS' = _INCIDENTS
       /\ (out'.op = "manage" /\ NoItem(_INCIDENTS', out'.item))
             => \A k \in DOMAIN _INCIDENTS'[LedgerChannel].timeline :
                   k > Len(_INCIDENTS[LedgerChannel].timeline)
                      => _INCIDENTS'[LedgerChannel].timeline[k].msg #
                            "Action updated via modal: #"
      ]_vars

\* the modal selected the id 3 in a record whose two items have other ids
C15_Witness ==
    /\ out.op = "manage"
    /\ out.item = 3
    /\ Len(_INCIDENTS[LedgerChannel].actions) = 2
    /\ NoItem(_INCIDENTS, 3)

\* C16: an action item that is open has neither done_at nor done_by, and an
\* item that is done has both.
C16_DoneFieldsTogether ==
    \A i \in Structured(_INCIDENTS) :
       LET a == _INCIDENTS[LedgerChannel].actions[i]
       IN  IF a.status = "done"
           THEN a.done_at # NoneTok /\ a.done_by # NoneTok
           ELSE a.done_at = NoneTok /\ a.done_by = NoneTok

\* the record in inc holds an open item with this text
OpenWithText(inc, text) ==
    \E i \in DOMAIN inc[LedgerChannel].actions :
       /\ inc[LedgerChannel].actions[i].status # "done"
       /\ inc[LedgerChannel].actions[i].text = text

\* C17: a message whose lines are all the same action line adds no item
\* when the record holds an open item with that text; when it holds none
\* (the items with that text are done) it appends one open item with that
\* text and the record's next id, however often the line is repeated.
C17_DedupAmongOpen ==
    [][(out'.op = "message" /\ out'.lines \in ActionMessages)
             => LET before == _INCIDENTS[LedgerChannel]
                    after == _INCIDENTS'[LedgerChannel]
                    text == out'.lines
                IN  IF OpenWithText(_INCIDENTS, text[1])
                    THEN after.actions = before.actions
                    ELSE /\ Len(after.actions) = Len(before.actions) + 1
                         /\ SubSeq(after.actions, 1, Len(before.actions)) =
                                before.actions
                         /\ after.actions[Len(after.actions)].id =
                                before.next_action_id
                         /\ after.actions[Len(after.actions)].status = "open"
                         /\ after.actions[Len(after.actions)].text = text[1]
                         /\ NoItem(_INCIDENTS, before.next_action_id)
      ]_vars

\* the line came twice in one message after item 1, with the same text, was
\* marked done: the first gave item 2, the second was suppressed
C17_Witness ==
    /\ out.op = "message"
    /\ out.lines = <<LineRestart, LineRestart>>
    /\ Len(_INCIDENTS[LedgerChannel].actions) = 2
    /\ _INCIDENTS[LedgerChannel].actions[1].text = LineRestart
    /\ _INCIDENTS[LedgerChannel].actions[1].status = "done"
    /\ _INCIDENTS[LedgerChannel].actions[2].text = LineRestart
    /\ _INCIDENTS[LedgerChannel].actions[2].status = "open"
    /\ _INCIDENTS[LedgerChannel].actions[2].created_by = Mention("U1")

\* a phrase of the set is a substring of the lower-cased line: its words are
\* consecutive words of the line, or its one word is a word of the line or
\* inside one
Occurs(line, phrases) ==
    \E k \in phrases :
       \/ \E i \in 1..Len(line) :
             /\ i + Len(k) - 1 <= Len(line)
             /\ \A j \in 1..Len(k) : LowerTok(line[i + j - 1]) = k[j]
       \/ /\ Len(k) = 1
          /\ \E i \in 1..Len(line) : k[1] \in Inside(LowerTok(line[i]))

\* C18: for every line the classifier returns HIGH exactly when an incident
\* keyword and an urgency keyword occur in the lower-cased line, MEDIUM
\* exactly when an incident keyword and no urgency keyword occur, LOW exactly
\* when no incident keyword occurs.
C18_ClassifierTable ==
    out.op = "classify"
       => LET incident == Occurs(out.lines[1], INCIDENT_KEYWORDS)
              urgency == Occurs(out.lines[1], URGENCY_KEYWORDS)
          IN  /\ out.reply \in {"HIGH", "MEDIUM", "LOW"}
              /\ (out.reply = "HIGH") = (incident /\ urgency)
              /\ (out.reply = "MEDIUM") = (incident /\ ~urgency)
              /\ (out.reply = "LOW") = ~incident

\* the line "there is a regression in checkout" was classified MEDIUM
C18_Witness ==
    /\ out.op = "classify"
    /\ out.lines = <<LineRegression>>
    /\ out.reply = "MEDIUM"

\* C19: once the abstract of a channel's record is neither "" nor "TBD", a
\* step that keeps the record leaves the abstract as it is.
C19_AbstractSetOnce ==
    [][\A c \in DOMAIN _INCIDENTS \cap DOMAIN _INCIDENTS' :
          _INCIDENTS[c].abstract \notin {"", "TBD"}
             => _INCIDENTS'[c].abstract = _INCIDENTS[c].abstract
      ]_vars

\* the line "login page" went through an incident whose abstract was
\* already "Software Bug"
C19_Witness ==
    /\ out.op = "message"
    /\ out.lines = <<LineLogin>>
    /\ out.channel \in DOMAIN _INCIDENTS
    /\ _INCIDENTS[out.channel].abstract = "Software Bug"

\* no URL is twice in the links
NoDuplicate(links) ==
    \A i, j \in DOMAIN links : links[i] = links[j] => i = j

\* C20: after every step the links of every record hold no URL twice, and a
\* step that keeps a record leaves its links of before as a prefix of its
\* links.
C20_LinksAppendOnly ==
    [][\A c \in DOMAIN _INCIDENTS' :
          /\ NoDuplicate(_INCIDENTS'[c].links)
          /\ c \in DOMAIN _INCIDENTS
             => /\ Len(_INCIDENTS[c].links) <= Len(_INCIDENTS'[c].links)
                /\ SubSeq(_INCIDENTS'[c].links, 1, Len(_INCIDENTS[c].links)) =
                       _INCIDENTS[c].links
      ]_vars

\* a line with a new URL and then the URL of the links went through: the
\* new URL is after the old one, which is there once
C20_Witness ==
    /\ out.op = "message"
    /\ out.lines = <<LineFaqRunbook>>
    /\ out.channel \in DOMAIN _INCIDENTS
    /\ _INCIDENTS[out.channel].links =
           <<"https://wiki/runbook", "https://wiki/faq">>

\* the events of the channel's timeline with this message
EventCount(inc, channel, msg) ==
    Cardinality({k \in DOMAIN inc[channel].timeline :
                    inc[channel].timeline[k].msg = msg})

\* C21: when two threads have each returned from start_incident on the
\* channel, at most one of them got True and the record has exactly one
\* "Incident detected" event.
C21_OneStartWins ==
    (\A t \in Threads : At(t, "start", "done"))
       => /\ Cardinality({t \in Threads : threads[t].ret = "True"}) <= 1
          /\ RaceChannel \in DOMAIN _INCIDENTS
          /\ EventCount(_INCIDENTS, RaceChannel, "Incident detected") = 1

\* C22: when two threads have each returned from add_action_item on the
\* channel's record, the record holds two items, with the two texts and
\* with different ids.
C22_BothAddsKept ==
    (\A t \in Threads : At(t, "add", "done") /\ Holds(t))
       => /\ Len(_INCIDENTS[RaceChannel].actions) = 2
          /\ \A t \in Threads :
                \E i \in 1..2 :
                   _INCIDENTS[RaceChannel].actions[i].text = ThreadText(t)
          /\ _INCIDENTS[RaceChannel].actions[1].id #
                 _INCIDENTS[RaceChannel].actions[2].id

\* C23: when one thread has returned from handle_message (one LOW line that
\* gives a status) and the other from resolve_incident, the store and the
\* pinned messages are those of one of the two sequential orders; in both
\* the channel has no record, no entry in PINNED_MESSAGES and no pinned
\* message.
C23_ResolveSerialized ==
    (\E t, u \in Threads : At(t, "message", "done") /\ At(u, "resolve", "done"))
       => /\ RaceChannel \notin DOMAIN _INCIDENTS
          /\ RaceChannel \notin DOMAIN PINNED_MESSAGES
          /\ slack[RaceChannel].pins = {}

\* what the three maps hold for a channel: <<"absent">> when it has no entry
Entry(map, c) == IF c \in DOMAIN map THEN <<"entry", map[c]>> ELSE <<"absent">>

\* C24: a call on one channel leaves, for every other channel, the record,
\* the pending marker and the entry of PINNED_MESSAGES as they were.
C24_ChannelsIndependent ==
    [][\A b \in TwoChannels :
          b # out'.channel
             => /\ Entry(_INCIDENTS', b) = Entry(_INCIDENTS, b)
                /\ Entry(pending_confirmations', b) =
                       Entry(pending_confirmations, b)
                /\ Entry(PINNED_MESSAGES', b) = Entry(PINNED_MESSAGES, b)
      ]_vars

\* the incident of C1 was resolved while C2 has a record with an action
\* item, a pending marker and a pinned summary
C24_Witness ==
    /\ out.op = "resolve"
    /\ out.channel = "C1"
    /\ "C1" \notin DOMAIN _INCIDENTS
    /\ "C2" \in DOMAIN _INCIDENTS
    /\ Len(_INCIDENTS["C2"].actions) >= 1
    /\ "C2" \in DOMAIN pending_confirmations
    /\ "C2" \in DOMAIN PINNED_MESSAGES

\* lines 106-219: the first detector of the loop body, in the order of the
\* code, that has a value for the line which the record rec does not hold
FirstNew(rec, user, line) ==
    IF detect_owner_question(line) THEN "question"
    ELSE IF /\ rec.pending_owner_request # NoneTok
            /\ Lower(line) \in ConfirmWords
            /\ user = rec.pending_owner_request
    THEN "confirmation"
    ELSE IF extract_status(line) \notin {NoneTok, rec.status} THEN "status"
    ELSE IF extract_jira_id(line) \notin {NoneTok, rec.jira_id} THEN "ticket"
    ELSE IF extract_owner(line, Mention(user)) \notin {NoneTok, rec.owner}
    THEN "owner"
    ELSE IF extract_eta(line) \notin {NoneText, rec.eta} THEN "eta"
    ELSE IF extract_action(line, Mention(user)) # NoneText THEN "action"
    ELSE "none"

\* lines 106-219: the first detector of the loop body, in the order of the
\* code, that finds something in the line
FirstMatch(rec, user, line) ==
    IF detect_owner_question(line) THEN "question"
    ELSE IF /\ rec.pending_owner_request # NoneTok
            /\ Lower(line) \in ConfirmWords
            /\ user = rec.pending_owner_request
    THEN "confirmation"
    ELSE IF extract_status(line) # NoneTok THEN "status"
    ELSE IF extract_jira_id(line) # NoneTok THEN "ticket"
    ELSE IF extract_owner(line, Mention(user)) # NoneTok THEN "owner"
    ELSE IF extract_eta(line) # NoneText THEN "eta"
    ELSE IF extract_action(line, Mention(user)) # NoneText THEN "action"
    ELSE "none"

\* the fields of the record that a detector of lines 106-219 writes
Writes(detector) ==
    CASE detector = "question" -> {"pending_owner_request"}
      [] detector = "confirmation" -> {"owner", "pending_owner_request"}
      [] detector = "status" -> {"status"}
      [] detector = "ticket" -> {"jira_id"}
      [] detector = "owner" -> {"owner"}
      [] detector = "eta" -> {"eta"}
      [] detector = "action" -> {"actions"}
      [] OTHER -> {}

\* the fields written by the detectors of lines 106-219 in which two records
\* differ
Changed(before, after) ==
    {f \in {"pending_owner_request", "owner", "status", "jira_id", "eta",
            "actions"} : after[f] # before[f]}

\* C25: a message of one line to an active incident changes, of the fields
\* that the owner question, the owner confirmation, the status, the ticket,
\* the owner assignment, the ETA and the action write, only those of the first
\* of these detectors, in that order, that has a value for the line which the
\* record does not hold yet.
C25_FirstNewValueConsumes ==
    [][\A user \in Users, line \in PipelineLines :
          /\ out'.op = "message"
          /\ out'.lines = <<line>>
          /\ HandleMessage(LedgerChannel, user, <<line>>, "ok")
          => Changed(normalize_actions(_INCIDENTS[LedgerChannel]),
                     _INCIDENTS'[LedgerChannel])
                \subseteq Writes(FirstNew(
                              normalize_actions(_INCIDENTS[LedgerChannel]),
                              user, line))
      ]_vars

\* the line "monitoring restart service" set the status and added no action
\* item
C25_Witness ==
    /\ out.op = "message"
    /\ out.lines = <<LineMonitoringRestart>>
    /\ _INCIDENTS[LedgerChannel].status = "Monitoring"
    /\ _INCIDENTS[LedgerChannel].actions = << >>

\* C25 as stated: a message of one line to an active incident changes only
\* the fields of the first detector, in that order, that finds something in
\* the line.
C25_FirstMatchConsumes ==
    [][\A user \in Users, line \in PipelineLines :
          /\ out'.op = "message"
          /\ out'.lines = <<line>>
          /\ HandleMessage(LedgerChannel, user, <<line>>, "ok")
          => Changed(normalize_actions(_INCIDENTS[LedgerChannel]),
                     _INCIDENTS'[LedgerChannel])
                \subseteq Writes(FirstMatch(
                              normalize_actions(_INCIDENTS[LedgerChannel]),
                              user, line))
      ]_vars

\* the URLs of a line, and those of the links of a record
Urls(line) == {line[i] : i \in {k \in DOMAIN line : IsUrl(line[k])}}

Linked(rec) == {rec.links[i] : i \in DOMAIN rec.links}

\* C26: after a message of one line went through the loop of an active
\* incident, every URL of the line is in the links of the record, whatever
\* else the line held.
C26_LinksAlwaysAdded ==
    /\ out.op = "message"
    /\ Len(out.lines) = 1
    /\ out.channel \in DOMAIN _INCIDENTS
    => Urls(out.lines[1]) \subseteq Linked(_INCIDENTS[out.channel])

\* lines 119-120: the test of the owner confirmation on the record rec
Confirms(rec, user, line) ==
    /\ rec.pending_owner_request # NoneTok
    /\ Lower(line) \in ConfirmWords
    /\ user = rec.pending_owner_request

\* C27: in a message of one line to an active incident, a line that is one of
\* yes/ok/okay/sure/i will, from the user named by pending_owner_request,
\* makes the sender the owner and clears pending_owner_request; such a line
\* from anyone else, or with no request pending, leaves owner and
\* pending_owner_request as they were; and pending_owner_request is cleared
\* by no other line.
C27_OwnerConfirmation ==
    [][\A user \in Users, line \in PipelineLines :
          /\ out'.op = "message"
          /\ out'.lines = <<line>>
          /\ HandleMessage(LedgerChannel, user, <<line>>, "ok")
          => /\ Confirms(_INCIDENTS[LedgerChannel], user, line)
                => /\ _INCIDENTS'[LedgerChannel].owner = Mention(user)
                   /\ _INCIDENTS'[LedgerChannel].pending_owner_request
                         = NoneTok
             /\ (/\ ~Confirms(_INCIDENTS[LedgerChannel], user, line)
                 /\ Lower(line) \in ConfirmWords)
                => /\ _INCIDENTS'[LedgerChannel].owner
                         = _INCIDENTS[LedgerChannel].owner
                   /\ _INCIDENTS'[LedgerChannel].pending_owner_request
                         = _INCIDENTS[LedgerChannel].pending_owner_request
             /\ (/\ _INCIDENTS[LedgerChannel].pending_owner_request # NoneTok
                 /\ _INCIDENTS'[LedgerChannel].pending_owner_request
                       = NoneTok)
                => Confirms(_INCIDENTS[LedgerChannel], user, line)
      ]_vars

\* user U1 was asked and answered "yes": U1 is the owner and the request is
\* cleared
C27_Witness ==
    /\ out.op = "message"
    /\ out.lines = <<LineYes>>
    /\ _INCIDENTS[LedgerChannel].owner = Mention("U1")
    /\ _INCIDENTS[LedgerChannel].pending_owner_request = NoneTok

\* C28: an action item that a message of one line with no mention in it adds
\* to the record of an active incident has no owner.
C28_NoOwnerWithoutMention ==
    [][(/\ out'.op = "message"
        /\ Len(out'.lines) = 1
        /\ Mentions(out'.lines[1]) = << >>
        /\ LedgerChannel \in DOMAIN _INCIDENTS \cap DOMAIN _INCIDENTS')
       => \A k \in DOMAIN _INCIDENTS'[LedgerChannel].actions :
             k > Len(_INCIDENTS[LedgerChannel].actions)
                => _INCIDENTS'[LedgerChannel].actions[k].owner = NoneTok
      ]_vars

\* C29: when the last call on a channel was a resolve that removed the
\* incident, a message to that channel whose first line that is not LOW is
\* MEDIUM sends the confirmation request, unless the platform rejects the
\* post.
C29_PromptAfterResolve ==
    [][(/\ out.op = "resolve"
        /\ out.reply = "Incident has been marked as Resolved"
        /\ out'.op = "message"
        /\ out'.channel = out.channel
        /\ Detect(out'.lines, 1).intent = "MEDIUM")
       => \/ out'.reply = "Possible incident detected"
          \/ out'.raised
      ]_vars

\* C30: a click on Confirm that follows a dismissal, on a channel with no
\* incident and no pending marker, leaves the channel without a record.
C30_ConfirmNeedsPending ==
    [][(/\ out.op = "ignore"
        /\ out'.op = "confirm"
        /\ out'.channel = out.channel
        /\ out.channel \notin DOMAIN _INCIDENTS
        /\ out.channel \notin DOMAIN pending_confirmations)
       => out.channel \notin DOMAIN _INCIDENTS'
      ]_vars

\* C31: a step after which a channel that had a record has none is a call of
\* the resolve handler for that channel.
C31_OnlyResolveRemoves ==
    [][\A c \in DOMAIN _INCIDENTS :
          c \notin DOMAIN _INCIDENTS'
             => out'.op = "resolve" /\ out'.channel = c
      ]_vars

\* the line "resolved now" set the status of an active incident to Resolved
\* and the record is still in the store
C31_Witness ==
    /\ out.op = "message"
    /\ out.lines = <<LineResolved>>
    /\ out.channel \in DOMAIN _INCIDENTS
    /\ _INCIDENTS[out.channel].status = "Resolved"

\* C32: a channel has an entry in PINNED_MESSAGES only while it has a record,
\* and the messages pinned in a channel are at most the one that its entry
\* in PINNED_MESSAGES names.
C32_OnePinnedSummary ==
    \A c \in Channels :
        /\ c \in DOMAIN PINNED_MESSAGES => c \in DOMAIN _INCIDENTS
        /\ slack[c].pins \subseteq
              (IF c \in DOMAIN PINNED_MESSAGES THEN {PINNED_MESSAGES[c]}
               ELSE {})

\* C33: a call of the resolve handler on a channel with a record either
\* removes the record or leaves its status and its timeline as they were.
C33_ResolveAllOrNothing ==
    [][\A c \in DOMAIN _INCIDENTS :
          (out'.op = "resolve" /\ out'.channel = c)
             => \/ c \notin DOMAIN _INCIDENTS'
                \/ /\ _INCIDENTS'[c].status = _INCIDENTS[c].status
                   /\ _INCIDENTS'[c].timeline = _INCIDENTS[c].timeline
      ]_vars

====
